---------------------------- MODULE Spec2Model ----------------------------
(*
  A model of the stock-viewer extension.

  Spec       executeConcurrent (utils): the bounded worker pool, one action
             per synchronous run of code between two awaits.
  FairSpec   the same, with tasks that settle and an event loop that runs
             every ready continuation (for termination).
  QuoteSpec  parseTencentData / parseSinaStock (StockDataService): the two
             wire parsers and the unit normalisers, as pure operators applied
             to replies drawn from bounded sets.
  FetchSpec  fetchStocks (StockDataService): the per-code Tencent loop and the
             single Sina request, with transport failures and malformed
             replies.
  UtilSpec   the pure helpers: generateCodes, getStockPrefix, isMarketOpen,
             isMarketOpenByData (utils), searchStocks and normalizeStockCodes
             (extension), validateAndCleanStockCodes (config) and the part
             of updateStatusBar after its fetch, applied to arguments drawn
             from bounded sets.
  ConfigSpec addStockCode (ConfigManager) on the stockCodes setting.
  BarSpec    StatusBarManager: updateStocks, showError, showNotConfigured
             and hide on the seven stock items.
  ViewerSpec StockViewer: start, refresh, stop, dispose, the timer tick, the
             configuration listener and the runs of updateStatusBar, whose
             fetches return in any order.
  LoaderSpec StockDatabaseManager: load and reload of the universe, the
             cache file, the remote fetch and the search command.

  Numbers.  The parsers work on IEEE doubles.  The model uses exact fixed
  point with two units per 1.0 (Fx(n) is the number n, 21 is 10.50), and
  every reply field of the model is a multiple of 0.5 small enough that the
  double arithmetic of the code is exact on it.
*)
EXTENDS Integers, Sequences, FiniteSets, TLC

VARIABLES
    \* ---- executeConcurrent(tasks, concurrency) ----
    pc,            \* "idle" (not called) | "running" | "done" (promise resolved)
    nTasks,        \* tasks.length
    concurrency,   \* the concurrency argument
    taskThrows,    \* the indices whose task function throws when called
    currentIndex,  \* the shared cursor
    results,       \* the result slots, index -> value | JsNull | Hole
    workers,       \* worker -> index it awaits, or Finished
    taskState,     \* index -> "unstarted" | "inflight" | "resolved" | "rejected" | "threw"
    taskValue,     \* index -> the value a resolved task resolved to
    startCount,    \* index -> how many times tasks[index]() was called
    output,        \* the array executeConcurrent resolved to
    \* ---- parseTencentData / parseSinaStock ----
    parseIn,       \* the code and parts handed to a parser, or NoReply
    parseOut,      \* the StockInfo it returned, or NoQuote
    \* ---- fetchStocks(codes, dataSource) ----
    fetchPc,       \* "idle" | "tencent" (in the per-code loop) | "sina" | "done"
    fetchSource,   \* "tencent" | "sina"
    fetchCodes,    \* the codes argument
    supportedCodes,\* fetchFromSina: the codes left by the filter
    fetchIdx,      \* fetchFromTencent: position of the code being requested
    fetchLog,      \* what httpGet was asked and what it answered, in order
    fetchResults,  \* the results array
    fetchFrom,     \* for each result, the position of the code it came from
    \* ---- the pure helpers of utils and of the canonicalizer ----
    callFn,        \* the name of the function called, or NoCall
    callIn,        \* its arguments
    callOut,       \* what it returned, in a record named after the kind of value
    \* ---- ConfigManager: the settings store ----
    stockCodes,    \* the stockViewer.stockCodes setting
    lastAdd,       \* the last addStockCode call: argument, list found, answer
    \* ---- StatusBarManager ----
    stockBarItems, \* the seven stock items: text, tooltip, color, command, shown
    settingsShown, \* the settings item is shown
    currentAlignment, \* "left" | "right"
    lastBar,       \* the last call made on the manager, and its number of stocks
    \* ---- StockViewer ----
    settings,      \* enableAutoUpdate, stopOnMarketClose, updateInterval (seconds)
    marketOpen,    \* isMarketOpen() on the wall clock
    updateTimer,   \* the handle in this.updateTimer, or NoTimer
    liveTimers,    \* the interval timers live in the runtime: handle, period
    runs,          \* the runs of updateStatusBar awaiting their fetch, oldest first
    handlers,      \* the configuration listeners awaiting the write of a cleaned list
    currentStocks, \* the quotes held for showDetails
    disposed,      \* dispose() was called
    tickCancelled, \* a tick cancelled the timer, and no start since
    lastOp,        \* the last step taken, and what it did
    \* ---- StockDatabaseManager ----
    stockDatabaseLoaded, \* the module's flag
    stockDatabaseLength, \* stockDatabase.length
    cacheFile,      \* the file stockDatabase.json
    remoteFetches,  \* the calls of fetchAllStocks not yet settled
    activated,      \* activate() has run
    lastLoad        \* the last step of the loader, and what load() did in it

execVars == <<pc, nTasks, concurrency, taskThrows, currentIndex, results,
              workers, taskState, taskValue, startCount, output>>
quoteVars == <<parseIn, parseOut>>
fetchVars == <<fetchPc, fetchSource, fetchCodes, supportedCodes, fetchIdx,
               fetchLog, fetchResults, fetchFrom>>
utilVars == <<callFn, callIn, callOut>>
configVars == <<stockCodes, lastAdd>>
barVars == <<stockBarItems, settingsShown, currentAlignment, lastBar>>
viewerVars == <<settings, marketOpen, updateTimer, liveTimers, runs, handlers,
                currentStocks, disposed, tickCancelled, lastOp>>
loaderVars == <<stockDatabaseLoaded, stockDatabaseLength, cacheFile,
                remoteFetches, activated, lastLoad>>
extVars == <<configVars, barVars, viewerVars, loaderVars>>
coreVars == <<execVars, quoteVars, fetchVars, utilVars>>
vars == <<coreVars, extVars>>

Min(a, b) == IF a <= b THEN a ELSE b

(***************************************************************************)
(* executeConcurrent                                                       *)
(***************************************************************************)

\* Bounds of the executor model.
MaxTasks == 3
MaxConcurrency == 3

\* JavaScript values of the executor model.
JsNull == "null"
JsUndefined == "undefined"
Hole == "hole"                 \* a slot of new Array(n) never assigned
ResultValues == {"a", "b", JsUndefined, JsNull}   \* what a task may resolve to
Finished == -1                 \* a worker whose while loop has ended
NotReturned == <<"pending">>   \* output before the call resolves

Indices(n) == 0 .. (n - 1)

\* Array.from({ length: Math.min(concurrency, tasks.length) }, ...)
NumWorkersNone(c, n) == 0
NumWorkersUnbounded(c, n) == n
NumWorkers(c, n) == Min(c, n)

\* const index = currentIndex++ : the cursor after handing out `cur`
NextCursorSkip(cur) == cur + 2
NextCursor(cur) == cur + 1

\* One synchronous run of a worker's while loop, from the loop test to its
\* next await (or to the end of the loop).  st = [cur, res, state, count];
\* a task that throws when called is caught at once and the loop goes on.
RECURSIVE RunWorker(_, _, _)
RunWorker(st, n, throws) ==
    IF st.cur < n
    THEN LET index == st.cur
             called == [st EXCEPT !.cur = NextCursor(st.cur),
                                  !.count[index] = @ + 1]
         IN IF index \in throws
            THEN RunWorker([called EXCEPT !.res[index] = JsNull,
                                          !.state[index] = "threw"],
                           n, throws)
            ELSE [called EXCEPT !.state[index] = "inflight",
                                !.await = index]
    ELSE [st EXCEPT !.await = Finished]

\* The workers are created one after the other; each runs synchronously up
\* to its first await before the next is created.
RECURSIVE SpawnWorkers(_, _, _, _, _)
SpawnWorkers(w, total, st, n, throws) ==
    IF w > total
    THEN [st |-> st, ws |-> <<>>]
    ELSE LET mine == RunWorker(st, n, throws)
             rest == SpawnWorkers(w + 1, total, mine, n, throws)
         IN [st |-> rest.st, ws |-> <<mine.await>> \o rest.ws]

\* results.filter(r => r !== null): holes are skipped by filter, null is
\* dropped by the predicate, everything else (undefined included) is kept.
RECURSIVE FilterFrom(_, _, _)
FilterFrom(res, i, n) ==
    IF i >= n THEN <<>>
    ELSE IF res[i] = Hole \/ res[i] = JsNull
         THEN FilterFrom(res, i + 1, n)
         ELSE <<res[i]>> \o FilterFrom(res, i + 1, n)

FilterNotNull(res, n) == FilterFrom(res, 0, n)

ExecInit ==
    /\ pc = "idle"
    /\ nTasks = 0
    /\ concurrency = 1
    /\ taskThrows = {}
    /\ currentIndex = 0
    /\ results = <<>>
    /\ workers = <<>>
    /\ taskState = <<>>
    /\ taskValue = <<>>
    /\ startCount = <<>>
    /\ output = NotReturned

\* executeConcurrent(tasks, c) up to `await Promise.all(workers)`.
Call(n, c, throws) ==
    /\ pc = "idle"
    /\ LET st0 == [cur |-> 0,
                   res |-> [i \in Indices(n) |-> Hole],
                   state |-> [i \in Indices(n) |-> "unstarted"],
                   count |-> [i \in Indices(n) |-> 0],
                   await |-> Finished]
           run == SpawnWorkers(1, NumWorkers(c, n), st0, n, throws)
       IN /\ currentIndex' = run.st.cur
          /\ results' = run.st.res
          /\ taskState' = run.st.state
          /\ startCount' = run.st.count
          /\ workers' = run.ws
    /\ pc' = "running"
    /\ nTasks' = n
    /\ concurrency' = c
    /\ taskThrows' = throws
    /\ taskValue' = [i \in Indices(n) |-> JsNull]
    /\ UNCHANGED <<output, quoteVars, fetchVars, utilVars, extVars>>

\* The promise of task i resolves to v.
Resolve(i, v) ==
    /\ pc = "running"
    /\ taskState[i] = "inflight"
    /\ taskState' = [taskState EXCEPT ![i] = "resolved"]
    /\ taskValue' = [taskValue EXCEPT ![i] = v]
    /\ UNCHANGED <<pc, nTasks, concurrency, taskThrows, currentIndex, results,
                   workers, startCount, output, quoteVars, fetchVars, utilVars,
                   extVars>>

\* The promise of task i rejects.
Reject(i) ==
    /\ pc = "running"
    /\ taskState[i] = "inflight"
    /\ taskState' = [taskState EXCEPT ![i] = "rejected"]
    /\ UNCHANGED <<pc, nTasks, concurrency, taskThrows, currentIndex, results,
                   workers, taskValue, startCount, output, quoteVars, fetchVars, utilVars,
                   extVars>>

\* Worker w resumes after its await: it stores the value (or null in the
\* catch block) and runs its loop to the next await.
Resume(w) ==
    /\ pc = "running"
    /\ workers[w] # Finished
    /\ LET index == workers[w]
       IN /\ taskState[index] \in {"resolved", "rejected"}
          /\ LET stored == IF taskState[index] = "resolved"
                           THEN taskValue[index] ELSE JsNull
                 st0 == [cur |-> currentIndex,
                         res |-> [results EXCEPT ![index] = stored],
                         state |-> taskState,
                         count |-> startCount,
                         await |-> Finished]
                 run == RunWorker(st0, nTasks, taskThrows)
             IN /\ currentIndex' = run.cur
                /\ results' = run.res
                /\ taskState' = run.state
                /\ startCount' = run.count
                /\ workers' = [workers EXCEPT ![w] = run.await]
    /\ UNCHANGED <<pc, nTasks, concurrency, taskThrows, taskValue, output,
                   quoteVars, fetchVars, utilVars, extVars>>

\* Promise.all(workers) has resolved: return results.filter(r => r !== null).
Return ==
    /\ pc = "running"
    /\ \A w \in DOMAIN workers : workers[w] = Finished
    /\ output' = FilterNotNull(results, nTasks)
    /\ pc' = "done"
    /\ UNCHANGED <<nTasks, concurrency, taskThrows, currentIndex, results,
                   workers, taskState, taskValue, startCount, quoteVars,
                   fetchVars, utilVars, extVars>>

ExecNext ==
    \/ \E n \in 0 .. MaxTasks, c \in 1 .. MaxConcurrency :
         \E throws \in SUBSET Indices(n) : Call(n, c, throws)
    \/ \E i \in DOMAIN taskState, v \in ResultValues : Resolve(i, v)
    \/ \E i \in DOMAIN taskState : Reject(i)
    \/ \E w \in DOMAIN workers : Resume(w)
    \/ Return

\* The promise of task i settles, one way or the other.
Settle(i) ==
    /\ i \in DOMAIN taskState
    /\ \/ \E v \in ResultValues : Resolve(i, v)
       \/ Reject(i)

\* The continuation of worker w is run.
Continue(w) == w \in DOMAIN workers /\ Resume(w)

\* Every task that is started settles in the end, and the event loop runs
\* every continuation that is ready: a worker whose task has settled, and
\* the caller once Promise.all has resolved.
ExecFairness ==
    /\ \A i \in Indices(MaxTasks) : WF_vars(Settle(i))
    /\ \A w \in 1 .. Min(MaxConcurrency, MaxTasks) : WF_vars(Continue(w))
    /\ WF_vars(Return)

(***************************************************************************)
(* StockDataService: the wire parsers and the unit normalisers             *)
(***************************************************************************)

\* The number n in the model's fixed point (two units per 1.0).
Fx(n) == 2 * n
\* a * b for two fixed-point numbers (exact on the model's replies); a is
\* halved before the product so that it stays within TLC's integers.
Times(a, b) == (a \div 2) * b + ((a % 2) * b) \div 2

\* One positional field of a reply, as the string the split produced:
\*   undef  no such index (parts[i] is undefined)
\*   empty  ""
\*   text   a non-empty string with no numeric prefix (parseFloat gives NaN)
\*   num    a numeric string, v its value in fixed point
\*   huge   a numeric string whose value is at least 1e13
Undef == [t |-> "undef", v |-> 0]
Empty == [t |-> "empty", v |-> 0]
Text == [t |-> "text", v |-> 0]
Num(v) == [t |-> "num", v |-> v]
Huge == [t |-> "huge", v |-> 0]

\* parts[i]
Part(parts, i) == IF i < parts.n THEN parts.f[i] ELSE Undef

\* if (parts[i]) : a string is truthy when it is not empty
Truthy(field) == field.t \notin {"undef", "empty"}

\* parseFloat(field) || dflt : NaN and 0 are falsy
ParseOr(field, dflt) ==
    IF field.t = "num" /\ field.v # 0 THEN field.v ELSE dflt

\* The codes of the model, with the lower-cased prefix startsWith() sees.
DomesticCode == "sz000001"
HKCode == "HK00700"
USCode == "us.AAPL"
IsHKStock(code) == code = HKCode        \* lowerCode.startsWith('hk')
IsUSStock(code) == code = USCode        \* lowerCode.startsWith('us.')

\* extractVolume: field 6 if it is a non-empty string, else field 36
ExtractVolume(parts, isHK, isUS) ==
    IF Truthy(Part(parts, 6)) THEN ParseOr(Part(parts, 6), 0)
    ELSE IF Truthy(Part(parts, 36)) THEN ParseOr(Part(parts, 36), 0)
    ELSE 0

\* candidate > 0 && candidate < 10000000000000, for idx of [7, 10]; a huge
\* field is positive and fails the cap
CandidateUsable(field) == field.t = "num" /\ field.v > 0
FirstCandidate(parts) ==
    IF CandidateUsable(Part(parts, 7)) THEN Part(parts, 7).v
    ELSE IF CandidateUsable(Part(parts, 10)) THEN Part(parts, 10).v
    ELSE 0

\* The domestic branch of calculateTurnover for a positive field 37.
DomesticTurnover(turnoverValue) ==
    IF turnoverValue < Fx(1000) THEN turnoverValue * 10000 ELSE turnoverValue

\* calculateTurnover
CalculateTurnover(parts, currentPrice, volume, isHK, isUS) ==
    LET turnoverValue == ParseOr(Part(parts, 37), 0)
        found == IF turnoverValue > 0
                 THEN IF isHK \/ isUS THEN turnoverValue
                      ELSE DomesticTurnover(turnoverValue)
                 ELSE IF ~isHK /\ ~isUS THEN FirstCandidate(parts) ELSE 0
    IN IF found = 0 /\ volume > 0 /\ currentPrice > 0
       THEN IF isHK \/ isUS THEN Times(volume, currentPrice)
            ELSE Times(volume * 100, currentPrice)
       ELSE found

\* parts[1] || code, parts[0] || code
NameOr(name, code) == IF name # "" THEN name ELSE code

\* currentPrice - yesterdayClose
ChangeAmount(currentPrice, yesterdayClose) == currentPrice - yesterdayClose

\* parseFloat(parts[33]) || currentPrice, parseFloat(parts[34]) || currentPrice
TencentHighLow(field, currentPrice) == ParseOr(field, currentPrice)

\* parseTencentData (changePercent and updateTime, two display strings, are
\* not part of the record of the model)
ParseTencentData(code, parts) ==
    LET currentPrice == ParseOr(Part(parts, 3), 0)
        yesterdayClose == ParseOr(Part(parts, 4), 0)
        isHK == IsHKStock(code)
        isUS == IsUSStock(code)
        volume == ExtractVolume(parts, isHK, isUS)
    IN [code |-> code,
        name |-> NameOr(parts.name, code),
        currentPrice |-> currentPrice,
        yesterdayClose |-> yesterdayClose,
        todayOpen |-> ParseOr(Part(parts, 5), 0),
        todayHigh |-> TencentHighLow(Part(parts, 33), currentPrice),
        todayLow |-> TencentHighLow(Part(parts, 34), currentPrice),
        changeAmount |-> ChangeAmount(currentPrice, yesterdayClose),
        volume |-> volume,
        turnover |-> CalculateTurnover(parts, currentPrice, volume, isHK, isUS),
        dataTimestamp |-> parts.ts]

\* adjustSinaTurnover, with the ratio > 100 branch taken from ratio > 10 on.
AdjustSinaTurnoverFromTen(turnover, volume, currentPrice) ==
    IF turnover > 0 /\ volume > 0 /\ currentPrice > 0
    THEN LET estimatedTurnover == Times(volume * 100, currentPrice)
         IN IF turnover <= (estimatedTurnover - 1) \div 10
               /\ turnover < Fx(100000000)
            THEN turnover * 10000
            ELSE IF (turnover - 1) \div 10 >= estimatedTurnover
                 THEN turnover \div 100
                 ELSE turnover
    ELSE IF volume > 0 /\ currentPrice > 0
         THEN Times(volume * 100, currentPrice)
         ELSE turnover

\* adjustSinaTurnover.  ratio = turnover / estimatedTurnover is compared
\* without dividing or multiplying the large side (integers, both positive):
\* ratio < 0.1 iff turnover <= (estimated - 1) \div 10, and
\* ratio > 100 iff (turnover - 1) \div 100 >= estimated.
AdjustSinaTurnover(turnover, volume, currentPrice) ==
    IF turnover > 0 /\ volume > 0 /\ currentPrice > 0
    THEN LET estimatedTurnover == Times(volume * 100, currentPrice)
         IN IF turnover <= (estimatedTurnover - 1) \div 10
               /\ turnover < Fx(100000000)
            THEN turnover * 10000
            ELSE IF (turnover - 1) \div 100 >= estimatedTurnover
                 THEN turnover \div 100
                 ELSE turnover
    ELSE IF volume > 0 /\ currentPrice > 0
         THEN Times(volume * 100, currentPrice)
         ELSE turnover

\* parseSinaStock
ParseSinaStock(code, parts) ==
    LET currentPrice == ParseOr(Part(parts, 3), 0)
        yesterdayClose == ParseOr(Part(parts, 2), 0)
        volume == ParseOr(Part(parts, 8), 0) \div 100
    IN [code |-> code,
        name |-> NameOr(parts.name, code),
        currentPrice |-> currentPrice,
        yesterdayClose |-> yesterdayClose,
        todayOpen |-> ParseOr(Part(parts, 1), 0),
        todayHigh |-> ParseOr(Part(parts, 4), 0),
        todayLow |-> ParseOr(Part(parts, 5), 0),
        changeAmount |-> ChangeAmount(currentPrice, yesterdayClose),
        volume |-> volume,
        turnover |-> AdjustSinaTurnover(ParseOr(Part(parts, 9), 0), volume,
                                        currentPrice),
        dataTimestamp |-> parts.ts]


(***************************************************************************)
(* QuoteSpec: the parsers applied to one reply record                      *)
(***************************************************************************)

NoReply == <<>>
NoQuote == <<>>
VendorName == "PingAnBank"
TencentStamp == "20240105143000"
SinaStamp == "2024-01-05 14:30:00"

\* parts of a Tencent reply: n fields, the name (field 1), the timestamp
\* (parts[30] || '') and the numeric fields the parser reads.
TencentParts(n, name, p3, p4, p5, p6, p7, p10, p33, p34, p36, p37) ==
    [n |-> n, name |-> name, ts |-> IF n > 30 THEN TencentStamp ELSE "",
     f |-> (3 :> p3 @@ 4 :> p4 @@ 5 :> p5 @@ 6 :> p6 @@ 7 :> p7 @@ 10 :> p10
            @@ 33 :> p33 @@ 34 :> p34 @@ 36 :> p36 @@ 37 :> p37)]

\* parts of a Sina line: dataDate && dataTime ? `${dataDate} ${dataTime}` : ''
SinaParts(n, name, p1, p2, p3, p4, p5, p8, p9) ==
    [n |-> n, name |-> name, ts |-> IF n > 31 THEN SinaStamp ELSE "",
     f |-> (1 :> p1 @@ 2 :> p2 @@ 3 :> p3 @@ 4 :> p4 @@ 5 :> p5 @@ 8 :> p8
            @@ 9 :> p9)]

\* Field values of the replies QuoteSpec feeds to the parsers.
PriceFields == {Empty, Num(21), Num(-21)}          \* "", "10.50", "-10.50"
CloseFields == {Text, Num(20)}                     \* "abc", "10.00"
VolumeFields == {Empty, Num(0), Num(Fx(50000)), Num(Fx(2)), Num(Fx(-10))}
TurnoverFields == {Empty, Num(Fx(500)), Num(Fx(5000)), Num(Fx(200000000)),
                   Num(Fx(-1))}

\* A reply cut after field 6 ("...~10.50~10.20~10.55~") and a full one.
TencentShortReplies ==
    {TencentParts(7, name, p3, p4, Num(21), p6, Undef, Undef, Undef, Undef,
                  Undef, Undef) :
       name \in {"", VendorName}, p3 \in PriceFields, p4 \in CloseFields,
       p6 \in VolumeFields}
TencentFullReplies ==
    {TencentParts(40, VendorName, p3, p4, Num(21), p6, p7, p10, p33, p34, p36,
                  p37) :
       p3 \in PriceFields, p4 \in CloseFields, p6 \in VolumeFields,
       p7 \in {Empty, Num(Fx(51000000)), Huge}, p10 \in {Empty, Num(Fx(300))},
       p33 \in {Empty, Num(22)}, p34 \in {Empty, Num(19)},
       p36 \in {Empty, Num(Fx(2000))}, p37 \in TurnoverFields}
TencentReplies == TencentShortReplies \cup TencentFullReplies
TencentCodes == {DomesticCode, HKCode, USCode}

\* A line with the minimum of four fields and a full one.  Field 8 is in
\* shares: "5000000" is 50000 lots.
SinaShortReplies ==
    {SinaParts(4, name, Num(21), p2, p3, Undef, Undef, Undef, Undef) :
       name \in {"", VendorName}, p2 \in CloseFields, p3 \in PriceFields}
\* Full lines; the last set holds heavy trading (1,000,000 lots), where a raw
\* turnover of 1e8 is below a tenth of the estimate.
SinaFullReplies ==
    {SinaParts(35, VendorName, Num(21), p2, p3, p4, p5, p8, p9) :
       p2 \in CloseFields, p3 \in PriceFields,
       p4 \in {Empty, Num(22)}, p5 \in {Empty, Num(19)},
       p8 \in {Empty, Num(Fx(5000000)), Num(Fx(200)), Num(Fx(-200))},
       p9 \in {Empty, Num(Fx(50000)), Num(Fx(51000000)), Num(Fx(52500000)),
               Num(Fx(-1))}}
    \cup
    {SinaParts(35, VendorName, Num(21), Num(20), p3, Num(22), Num(19),
               Num(Fx(100000000)), p9) :
       p3 \in PriceFields,
       p9 \in {Empty, Num(Fx(50000)), Num(Fx(100000000))}}
SinaReplies == SinaShortReplies \cup SinaFullReplies

QuoteIdle ==
    /\ parseIn = NoReply
    /\ parseOut = NoQuote

\* this.parseTencentData(code, parts)
ParseTencent(code, parts) ==
    /\ parseIn = NoReply
    /\ parseIn' = [dialect |-> "tencent", code |-> code, parts |-> parts]
    /\ parseOut' = ParseTencentData(code, parts)
    /\ UNCHANGED <<execVars, fetchVars, utilVars, extVars>>

\* this.parseSinaStock(code, parts)
ParseSina(code, parts) ==
    /\ parseIn = NoReply
    /\ parseIn' = [dialect |-> "sina", code |-> code, parts |-> parts]
    /\ parseOut' = ParseSinaStock(code, parts)
    /\ UNCHANGED <<execVars, fetchVars, utilVars, extVars>>

QuoteNext ==
    \/ \E code \in TencentCodes, parts \in TencentReplies :
         ParseTencent(code, parts)
    \/ \E parts \in SinaReplies : ParseSina(DomesticCode, parts)


(***************************************************************************)
(* FetchSpec: fetchStocks, one action per httpGet answer                   *)
(***************************************************************************)

\* Bounds of the fetch model.
MaxCodes == 2
MaxLines == 2

BareCode == "600000"
FetchCodes == {DomesticCode, HKCode, USCode, BareCode}

\* The names a vendor puts on a code it does not know (stockDatabase.ts
\* tests the name of a universe entry for them).
NotExistsName == "not-exists"
ErrorName == "error"
FetchNames == {"", VendorName, NotExistsName, ErrorName}

\* code.toLowerCase().startsWith('us.') ? `r_us${symbol.toUpperCase()}` : code
TencentCode(code) == IF code = USCode THEN "r_usAAPL" ELSE code

\* lower.startsWith('sz') || 'sh' || 'bj' || /^\d{6}$/.test(code)
SinaSupports(code) == code \in {DomesticCode, BareCode}

\* What one httpGet settles to: a rejection, a body without ="...", or a
\* body whose quoted part splits into parts.
NoParts == [n |-> 0, name |-> "", ts |-> "", f |-> <<>>]
HttpFail == [kind |-> "fail", parts |-> NoParts]
NoMatch == [kind |-> "nomatch", parts |-> NoParts]
Blank == [kind |-> "blank", parts |-> NoParts]
Record(parts) == [kind |-> "record", parts |-> parts]

TencentFetchParts ==
    {TencentParts(n, name, Num(21), Num(20), Num(21), Num(Fx(50000)), Empty,
                  Empty, Num(22), Num(19), Empty, Num(Fx(500))) :
       n \in {4, 40}, name \in FetchNames}
SinaFetchParts ==
    {SinaParts(n, name, Num(21), Num(20), Num(21), Num(22), Num(19),
               Num(Fx(5000000)), Num(Fx(51000000))) :
       n \in {3, 35}, name \in FetchNames}

TencentAnswers == {HttpFail, NoMatch} \cup {Record(p) : p \in TencentFetchParts}
SinaLines == {Blank, NoMatch} \cup {Record(p) : p \in SinaFetchParts}

SeqsUpTo(S, n) == UNION {[1 .. k -> S] : k \in 0 .. n}

\* if (match?.[1]) { parts = ...split('~'); if (parts.length >= 5) ... }
TencentAcceptsNamed(answer) ==
    /\ answer.kind = "record"
    /\ answer.parts.n >= 5
    /\ answer.parts.name \notin {"", NotExistsName, ErrorName}
TencentAccepts(answer) ==
    /\ answer.kind = "record"
    /\ answer.parts.n >= 5

\* if (!line) continue; if (match?.[1]) { ...split(','); if (parts.length >= 4) ... }
SinaAccepts(line) ==
    /\ line.kind = "record"
    /\ line.parts.n >= 4

\* parseSinaData: line i answers codes[i], for i < min(lines, codes)
RECURSIVE ParseSinaFrom(_, _, _)
ParseSinaFrom(lines, codes, i) ==
    IF i > Min(Len(lines), Len(codes))
    THEN [res |-> <<>>, from |-> <<>>]
    ELSE LET rest == ParseSinaFrom(lines, codes, i + 1)
         IN IF SinaAccepts(lines[i])
            THEN [res |-> <<ParseSinaStock(codes[i], lines[i].parts)>> \o rest.res,
                  from |-> <<i>> \o rest.from]
            ELSE rest

ParseSinaData(lines, codes) == ParseSinaFrom(lines, codes, 1)

\* fetchStocks(codes, dataSource), up to the first httpGet
FetchStocks(codes, source) ==
    /\ fetchPc = "idle"
    /\ fetchCodes' = codes
    /\ fetchSource' = source
    /\ IF source = "sina"
       THEN /\ supportedCodes' = SelectSeq(codes, SinaSupports)
            /\ fetchPc' = IF supportedCodes' = <<>> THEN "done" ELSE "sina"
            /\ fetchIdx' = fetchIdx
       ELSE /\ supportedCodes' = supportedCodes
            /\ fetchPc' = IF codes = <<>> THEN "done" ELSE "tencent"
            /\ fetchIdx' = 1
    /\ UNCHANGED <<fetchLog, fetchResults, fetchFrom, execVars, quoteVars, utilVars,
                    extVars>>

\* fetchFromTencent with the try around the whole loop: a rejected httpGet
\* ends the fetch with the records gathered so far.
TencentStepAborting(answer) ==
    /\ fetchPc = "tencent"
    /\ LET code == fetchCodes[fetchIdx]
       IN /\ fetchLog' = Append(fetchLog,
                                [asked |-> <<TencentCode(code)>>, answer |-> <<answer>>])
          /\ IF answer.kind = "record" /\ answer.parts.n >= 5
             THEN /\ fetchResults' = Append(fetchResults,
                                            ParseTencentData(code, answer.parts))
                  /\ fetchFrom' = Append(fetchFrom, fetchIdx)
             ELSE UNCHANGED <<fetchResults, fetchFrom>>
    /\ fetchIdx' = fetchIdx + 1
    /\ fetchPc' = IF fetchIdx = Len(fetchCodes) \/ answer.kind = "fail"
                  THEN "done" ELSE "tencent"
    /\ UNCHANGED <<fetchSource, fetchCodes, supportedCodes, execVars, quoteVars, utilVars,
                    extVars>>

\* fetchFromTencent: one turn of the for loop, httpGet settling to `answer`
TencentStep(answer) ==
    /\ fetchPc = "tencent"
    /\ LET code == fetchCodes[fetchIdx]
       IN /\ fetchLog' = Append(fetchLog,
                                [asked |-> <<TencentCode(code)>>, answer |-> <<answer>>])
          /\ IF TencentAccepts(answer)
             THEN /\ fetchResults' = Append(fetchResults,
                                            ParseTencentData(code, answer.parts))
                  /\ fetchFrom' = Append(fetchFrom, fetchIdx)
             ELSE UNCHANGED <<fetchResults, fetchFrom>>
    /\ fetchIdx' = fetchIdx + 1
    /\ fetchPc' = IF fetchIdx = Len(fetchCodes) THEN "done" ELSE "tencent"
    /\ UNCHANGED <<fetchSource, fetchCodes, supportedCodes, execVars, quoteVars, utilVars,
                    extVars>>

\* fetchFromSina: the one httpGet rejects (catch: return [])
SinaFail ==
    /\ fetchPc = "sina"
    /\ fetchLog' = Append(fetchLog, [asked |-> supportedCodes, answer |-> <<HttpFail>>])
    /\ fetchPc' = "done"
    /\ UNCHANGED <<fetchSource, fetchCodes, supportedCodes, fetchIdx,
                   fetchResults, fetchFrom, execVars, quoteVars, utilVars,
                   extVars>>

\* fetchFromSina: the one httpGet resolves to a body of `lines`
SinaStep(lines) ==
    /\ fetchPc = "sina"
    /\ fetchLog' = Append(fetchLog, [asked |-> supportedCodes, answer |-> lines])
    /\ LET parsed == ParseSinaData(lines, supportedCodes)
       IN /\ fetchResults' = parsed.res
          /\ fetchFrom' = parsed.from
    /\ fetchPc' = "done"
    /\ UNCHANGED <<fetchSource, fetchCodes, supportedCodes, fetchIdx,
                   execVars, quoteVars, utilVars, extVars>>

FetchNext ==
    \/ \E codes \in SeqsUpTo(FetchCodes, MaxCodes), source \in {"tencent", "sina"} :
         FetchStocks(codes, source)
    \/ \E answer \in TencentAnswers : TencentStep(answer)
    \/ SinaFail
    \/ \E k \in 1 .. MaxLines : \E lines \in [1 .. k -> SinaLines] : SinaStep(lines)


(***************************************************************************)
(* UtilSpec: the pure helpers, one action per call                         *)
(***************************************************************************)

NoCall == "none"
NoValue == <<>>

UtilIdle ==
    /\ callFn = NoCall
    /\ callIn = NoValue
    /\ callOut = NoValue

\* Strings are sequences of one-character strings.
DigitChars == <<"0", "1", "2", "3", "4", "5", "6", "7", "8", "9">>
IsDigit(c) == \E d \in 1 .. 10 : DigitChars[d] = c
DigitValue(c) == (CHOOSE d \in 1 .. 10 : DigitChars[d] = c) - 1

\* String(i) for an integer i
RECURSIVE NatToString(_)
NatToString(i) ==
    IF i < 10 THEN <<DigitChars[i + 1]>>
    ELSE NatToString(i \div 10) \o <<DigitChars[(i % 10) + 1]>>
NumberToString(i) == IF i < 0 THEN <<"-">> \o NatToString(-i) ELSE NatToString(i)

\* str.padStart(width, '0'): a string already that long is returned as it is
RECURSIVE PadStart(_, _)
PadStart(str, width) ==
    IF Len(str) >= width THEN str ELSE PadStart(<<"0">> \o str, width)

\* The width generateCodes pads to.
CodeWidth == 6

\* generateCodes with `i < end` as the loop test.
RECURSIVE GenerateCodesBelowEnd(_, _, _)
GenerateCodesBelowEnd(prefix, start, end) ==
    IF start < end
    THEN <<prefix \o PadStart(NumberToString(start), CodeWidth)>>
         \o GenerateCodesBelowEnd(prefix, start + 1, end)
    ELSE <<>>

\* generateCodes: for (let i = start; i <= end; i++) codes.push(...)
RECURSIVE GenerateCodes(_, _, _)
GenerateCodes(prefix, start, end) ==
    IF start <= end
    THEN <<prefix \o PadStart(NumberToString(start), CodeWidth)>>
         \o GenerateCodes(prefix, start + 1, end)
    ELSE <<>>

\* The arguments generateCodes is called with: the two board prefixes, and
\* numbers at both ends of the six-digit range and just outside it.
MaxRange == 3
GenPrefixes == {<<"s", "z">>, <<"s", "h">>}
GenNumbers == {-1, 0, 1, 2, 9, 10, 11, 600000, 600002, 999998, 999999, 1000000}

CallGenerateCodes(prefix, start, end) ==
    /\ callFn = NoCall
    /\ end - start < MaxRange
    /\ callFn' = "generateCodes"
    /\ callIn' = [prefix |-> prefix, start |-> start, end |-> end]
    /\ callOut' = [codes |-> GenerateCodes(prefix, start, end)]
    /\ UNCHANGED <<execVars, quoteVars, fetchVars, extVars>>

\* isMarketOpen, on a clock reading: now.getDay() (0 is Sunday),
\* now.getHours(), now.getMinutes()
IsMarketOpen(day, hours, minutes) ==
    LET time == hours * 100 + minutes
    IN IF day = 0 \/ day = 6 THEN FALSE
       ELSE IF time >= 930 /\ time <= 1130 THEN TRUE
       ELSE IF time >= 1300 /\ time <= 1500 THEN TRUE
       ELSE FALSE

\* The clock readings of the model: every day of the week, and times on both
\* sides of each end of the two sessions.
WeekDays == 0 .. 6
ClockHours == {8, 9, 10, 11, 12, 13, 14, 15, 23}
ClockMinutes == {0, 1, 14, 15, 29, 30, 31, 59}

CallIsMarketOpen(day, hours, minutes) ==
    /\ callFn = NoCall
    /\ callFn' = "isMarketOpen"
    /\ callIn' = [day |-> day, hours |-> hours, minutes |-> minutes]
    /\ callOut' = [open |-> IsMarketOpen(day, hours, minutes)]
    /\ UNCHANGED <<execVars, quoteVars, fetchVars, extVars>>

\* A calendar date is <<year, month, day of month>>.
\* Tencent's parts[30]: YYYYMMDDHHMMSS
TencentTimestamp(date, hours, minutes) ==
    PadStart(NumberToString(date[1]), 4) \o PadStart(NumberToString(date[2]), 2)
    \o PadStart(NumberToString(date[3]), 2) \o PadStart(NumberToString(hours), 2)
    \o PadStart(NumberToString(minutes), 2) \o <<"0", "0">>

\* Sina's `${dataDate} ${dataTime}`: YYYY-MM-DD HH:MM:SS
SinaTimestamp(date, hours, minutes) ==
    PadStart(NumberToString(date[1]), 4) \o <<"-">>
    \o PadStart(NumberToString(date[2]), 2) \o <<"-">>
    \o PadStart(NumberToString(date[3]), 2) \o <<" ">>
    \o PadStart(NumberToString(hours), 2) \o <<":">>
    \o PadStart(NumberToString(minutes), 2) \o <<":", "0", "0">>

\* The number written by the digits str[from .. to].
RECURSIVE DigitsToNumber(_, _, _)
DigitsToNumber(str, from, to) ==
    IF from > to THEN 0
    ELSE 10 * DigitsToNumber(str, from, to - 1) + DigitValue(str[to])

AllDigits(str, positions) == \A k \in positions : IsDigit(str[k])

\* The date and time of day embedded in a vendor timestamp, or Unparsable.
Unparsable == [ok |-> FALSE, date |-> <<0, 0, 0>>, time |-> 0]
ParseTimestamp(stamp, dataSource) ==
    IF dataSource = "tencent"
    THEN IF Len(stamp) = 14 /\ AllDigits(stamp, 1 .. 14)
         THEN [ok |-> TRUE,
               date |-> <<DigitsToNumber(stamp, 1, 4), DigitsToNumber(stamp, 5, 6),
                          DigitsToNumber(stamp, 7, 8)>>,
               time |-> DigitsToNumber(stamp, 9, 10) * 100
                        + DigitsToNumber(stamp, 11, 12)]
         ELSE Unparsable
    ELSE IF /\ Len(stamp) = 19
            /\ AllDigits(stamp, (1 .. 19) \ {5, 8, 11, 14, 17})
            /\ stamp[5] = "-" /\ stamp[8] = "-" /\ stamp[11] = " "
            /\ stamp[14] = ":" /\ stamp[17] = ":"
         THEN [ok |-> TRUE,
               date |-> <<DigitsToNumber(stamp, 1, 4), DigitsToNumber(stamp, 6, 7),
                          DigitsToNumber(stamp, 9, 10)>>,
               time |-> DigitsToNumber(stamp, 12, 13) * 100
                        + DigitsToNumber(stamp, 15, 16)]
         ELSE Unparsable

\* The session windows of the data-timestamp mode: 09:15-11:30, 13:00-15:00.
InSessionWindow(time) ==
    \/ time >= 915 /\ time <= 1130
    \/ time >= 1300 /\ time <= 1500

\* isMarketOpenByData without the test of the embedded date.
IsMarketOpenByDataAnyDate(stamp, dataSource, now) ==
    LET parsed == ParseTimestamp(stamp, dataSource)
    IN IF ~parsed.ok THEN IsMarketOpen(now.day, now.hours, now.minutes)
       ELSE InSessionWindow(parsed.time)

\* isMarketOpenByData(dataTimestamp, dataSource), on the clock reading `now`
IsMarketOpenByData(stamp, dataSource, now) ==
    LET parsed == ParseTimestamp(stamp, dataSource)
    IN IF ~parsed.ok THEN IsMarketOpen(now.day, now.hours, now.minutes)
       ELSE IF parsed.date # now.date THEN FALSE
       ELSE InSessionWindow(parsed.time)

\* The clock readings and the timestamps of the by-data calls: Friday
\* 2024-01-05 and the days around it.
Clocks ==
    {[date |-> <<2024, 1, 5>>, day |-> 5, hours |-> t[1], minutes |-> t[2]] :
       t \in {<<10, 0>>, <<8, 0>>, <<20, 0>>}}
    \cup {[date |-> <<2024, 1, 6>>, day |-> 6, hours |-> 10, minutes |-> 0]}
StampDates == {<<2024, 1, 4>>, <<2024, 1, 5>>, <<2024, 1, 6>>, <<2023, 1, 5>>}
StampsMade ==
    [date : StampDates, hours : ClockHours, minutes : {0, 14, 15, 30, 31}]
NoStamp == [date |-> <<0, 0, 0>>, hours |-> 0, minutes |-> 0]
\* '', 'invalid', '2024' and '2024/01/05'
MalformedStamps ==
    {<<>>, <<"i", "n", "v", "a", "l", "i", "d">>, <<"2", "0", "2", "4">>,
     <<"2", "0", "2", "4", "/", "0", "1", "/", "0", "5">>}

\* A call with the timestamp a vendor wrote for `made`, or a malformed one.
CallIsMarketOpenByData(stamp, made, dataSource, now) ==
    /\ callFn = NoCall
    /\ callFn' = "isMarketOpenByData"
    /\ callIn' = [stamp |-> stamp, made |-> made, dataSource |-> dataSource,
                  now |-> now]
    /\ callOut' = [open |-> IsMarketOpenByData(stamp, dataSource, now)]
    /\ UNCHANGED <<execVars, quoteVars, fetchVars, extVars>>

\* ---- searchStocks (extension.ts) ----

\* The characters of the model's strings, in code-unit order.
Alphabet ==
    <<" ", ".", "0", "1", "2", "3", "4", "5", "6", "7", "8", "9",
      "A", "B", "H", "K", "S", "U", "Z", "a", "b", "h", "j", "k", "s", "u",
      "w", "x", "y", "z", "CJK1", "CJK2">>
CharIndex(c) == CHOOSE k \in DOMAIN Alphabet : Alphabet[k] = c

\* c.toLowerCase()
LowerChar(c) ==
    CASE c = "A" -> "a" [] c = "B" -> "b" [] c = "H" -> "h" [] c = "K" -> "k"
      [] c = "S" -> "s" [] c = "U" -> "u" [] c = "Z" -> "z" [] OTHER -> c
ToLowerCase(str) == [k \in DOMAIN str |-> LowerChar(str[k])]

\* str.trim()
RECURSIVE TrimStart(_)
TrimStart(str) ==
    IF str # <<>> /\ str[1] = " " THEN TrimStart(Tail(str)) ELSE str
RECURSIVE TrimEnd(_)
TrimEnd(str) ==
    IF str # <<>> /\ str[Len(str)] = " "
    THEN TrimEnd(SubSeq(str, 1, Len(str) - 1)) ELSE str
Trim(str) == TrimEnd(TrimStart(str))

\* str.startsWith(sub), str.includes(sub)
StartsWith(str, sub) ==
    Len(sub) <= Len(str) /\ SubSeq(str, 1, Len(sub)) = sub
Includes(str, sub) ==
    \E k \in 1 .. Len(str) - Len(sub) + 1 : SubSeq(str, k, k + Len(sub) - 1) = sub

\* a.localeCompare(b) < 0, on strings of digits and lower-case letters
RECURSIVE LocaleLess(_, _)
LocaleLess(a, b) ==
    IF b = <<>> THEN FALSE
    ELSE IF a = <<>> THEN TRUE
    ELSE IF a[1] # b[1] THEN CharIndex(a[1]) < CharIndex(b[1])
    ELSE LocaleLess(Tail(a), Tail(b))

\* calculateMatchScore with the scores falling along the order of the tests.
CalculateMatchScoreAsListed(stock, keyword, lowerKeyword) ==
    IF stock.name = keyword THEN 1000
    ELSE IF StartsWith(stock.name, keyword) THEN 950
    ELSE IF Includes(stock.name, keyword) THEN 900
    ELSE IF Includes(ToLowerCase(stock.name), lowerKeyword) THEN 800
    ELSE IF stock.number = keyword THEN 700
    ELSE IF StartsWith(stock.number, keyword) THEN 600
    ELSE IF Includes(stock.number, keyword) THEN 500
    ELSE IF ToLowerCase(stock.code) = lowerKeyword THEN 400
    ELSE IF Includes(ToLowerCase(stock.code), lowerKeyword) THEN 300
    ELSE 0

\* calculateMatchScore
CalculateMatchScore(stock, keyword, lowerKeyword) ==
    IF stock.name = keyword THEN 1000
    ELSE IF StartsWith(stock.name, keyword) THEN 800
    ELSE IF Includes(stock.name, keyword) THEN 600
    ELSE IF Includes(ToLowerCase(stock.name), lowerKeyword) THEN 500
    ELSE IF stock.number = keyword THEN 900
    ELSE IF StartsWith(stock.number, keyword) THEN 700
    ELSE IF Includes(stock.number, keyword) THEN 400
    ELSE IF ToLowerCase(stock.code) = lowerKeyword THEN 950
    ELSE IF Includes(ToLowerCase(stock.code), lowerKeyword) THEN 300
    ELSE 0

\* The comparator of the sort, as a number: negative puts a first.
CompareMatches(a, b) ==
    IF a.score # b.score THEN b.score - a.score
    ELSE IF a.stock.name # <<>> /\ b.stock.name = <<>> THEN -1
    ELSE IF a.stock.name = <<>> /\ b.stock.name # <<>> THEN 1
    ELSE IF a.stock.name # <<>> /\ b.stock.name # <<>>
         THEN Len(a.stock.name) - Len(b.stock.name)
    ELSE IF a.stock.code = b.stock.code THEN 0
    ELSE IF LocaleLess(a.stock.code, b.stock.code) THEN -1 ELSE 1

\* Array.prototype.sort is stable: an item goes after the sorted items that
\* do not compare greater than it.
RECURSIVE InsertMatch(_, _)
InsertMatch(sorted, item) ==
    IF sorted = <<>> THEN <<item>>
    ELSE IF CompareMatches(sorted[Len(sorted)], item) <= 0
         THEN Append(sorted, item)
         ELSE Append(InsertMatch(SubSeq(sorted, 1, Len(sorted) - 1), item),
                     sorted[Len(sorted)])
RECURSIVE SortMatches(_)
SortMatches(items) ==
    IF items = <<>> THEN <<>>
    ELSE InsertMatch(SortMatches(SubSeq(items, 1, Len(items) - 1)),
                     items[Len(items)])

\* The loop over stockDatabase: the first entry of each code that scores > 0.
RECURSIVE CollectMatches(_, _, _)
CollectMatches(database, keyword, found) ==
    IF database = <<>> THEN found
    ELSE LET stock == database[1]
             score == CalculateMatchScore(stock, keyword, ToLowerCase(keyword))
         IN IF (\E k \in DOMAIN found : found[k].stock.code = stock.code)
               \/ score <= 0
            THEN CollectMatches(Tail(database), keyword, found)
            ELSE CollectMatches(Tail(database), keyword,
                                Append(found, [stock |-> stock, score |-> score]))

\* searchStocks(keyword), stockDatabase being `database`
SearchStocks(database, keyword) ==
    LET trimmedKeyword == Trim(keyword)
    IN IF trimmedKeyword = <<>> THEN <<>>
       ELSE LET sorted == SortMatches(CollectMatches(database, trimmedKeyword, <<>>))
            IN [k \in DOMAIN sorted |-> sorted[k].stock]

\* The universe entries of the model.
StockItem(code, name) ==
    [code |-> code, name |-> name, number |-> SubSeq(code, 3, Len(code))]
StockPool ==
    {StockItem(<<"s", "z", "9", "0", "0">>, <<"1", "2">>),
     StockItem(<<"s", "z", "9", "0", "1">>, <<"1", "2", "x">>),
     StockItem(<<"s", "z", "9", "0", "2">>, <<"x", "1", "2">>),
     StockItem(<<"s", "z", "1", "2">>, <<"y", "y">>),
     StockItem(<<"s", "h", "1", "2">>, <<"w", "w">>),
     StockItem(<<"s", "z", "1", "2", "3">>, <<"z", "z">>),
     StockItem(<<"s", "z", "3", "1", "2">>, <<>>),
     StockItem(<<"s", "h", "4", "1", "2">>, <<>>),
     StockItem(<<"s", "h", "9", "0", "3">>, <<"x", "A", "B">>)}
SearchKeywords ==
    {<<"1", "2">>, <<" ", "1", "2", " ">>, <<"a", "b">>, <<"S", "Z", "1", "2">>,
     <<"z", "1">>, <<" ">>}

\* The universes: up to MaxUniverse entries of the pool, in any order, each
\* code once.
MaxUniverse == 3
Universes ==
    {u \in SeqsUpTo(StockPool, MaxUniverse) :
       \A i, j \in DOMAIN u : i # j => u[i] # u[j]}

CallSearchStocks(database, keyword) ==
    /\ callFn = NoCall
    /\ callFn' = "searchStocks"
    /\ callIn' = [database |-> database, keyword |-> keyword]
    /\ callOut' = [stocks |-> SearchStocks(database, keyword)]
    /\ UNCHANGED <<execVars, quoteVars, fetchVars, extVars>>

\* ---- normalizeStockCodes (extension.ts), getStockPrefix (utils) ----

\* getStockPrefix with the Shanghai main board ending at 604999.
GetStockPrefixShortBoard(num) ==
    IF (num >= 600000 /\ num <= 604999) \/ (num >= 688000 /\ num <= 689999)
    THEN <<"s", "h">>
    ELSE IF (num >= 0 /\ num <= 6999) \/ (num >= 300000 /\ num <= 302999)
    THEN <<"s", "z">>
    ELSE IF num >= 920000 /\ num <= 920999 THEN <<"b", "j">>
    ELSE <<"s", "z">>

\* getStockPrefix
GetStockPrefix(num) ==
    IF (num >= 600000 /\ num <= 605999) \/ (num >= 688000 /\ num <= 689999)
    THEN <<"s", "h">>
    ELSE IF (num >= 0 /\ num <= 6999) \/ (num >= 300000 /\ num <= 302999)
    THEN <<"s", "z">>
    ELSE IF num >= 920000 /\ num <= 920999 THEN <<"b", "j">>
    ELSE <<"s", "z">>

\* [A-Z] under the i flag, and [A-Z0-9]
IsLetter(c) ==
    c \in {"A", "B", "H", "K", "S", "U", "Z", "a", "b", "h", "j", "k", "s", "u",
           "w", "x", "y", "z"}
IsAlnum(c) == IsLetter(c) \/ IsDigit(c)

\* /[一-龥]/.test(str)
IsCJK(c) == c \in {"CJK1", "CJK2"}
HasCJK(str) == \E k \in DOMAIN str : IsCJK(str[k])

\* /^(sz|sh|bj)\d{6}$/i
IsDomesticCode(str) ==
    /\ Len(str) = 8
    /\ ToLowerCase(SubSeq(str, 1, 2)) \in {<<"s", "z">>, <<"s", "h">>, <<"b", "j">>}
    /\ AllDigits(str, 3 .. 8)

\* /^hk\d{5}$/i
IsHKCode(str) ==
    /\ Len(str) = 7
    /\ ToLowerCase(SubSeq(str, 1, 2)) = <<"h", "k">>
    /\ AllDigits(str, 3 .. 7)

\* /^us\.[A-Z0-9]+(?:\.[A-Z]+)?$/i: "us.", a symbol, and either nothing more
\* or a dot and a class of letters
IsUSCode(str) ==
    /\ Len(str) >= 4
    /\ ToLowerCase(SubSeq(str, 1, 3)) = <<"u", "s", ".">>
    /\ \/ \A k \in 4 .. Len(str) : IsAlnum(str[k])
       \/ \E dot \in 5 .. Len(str) - 1 :
            /\ str[dot] = "."
            /\ \A k \in 4 .. dot - 1 : IsAlnum(str[k])
            /\ \A k \in dot + 1 .. Len(str) : IsLetter(str[k])

\* /^\d{6}$/
IsBareNumber(str) == Len(str) = 6 /\ AllDigits(str, 1 .. 6)

\* What the entries of config.stockCodes can be besides strings.
NotAString == <<"not-a-string">>

\* One turn of the loop of normalizeStockCodes with the name search pushing
\* results[0].number.
NormalizeOneToNumber(code, database, loaded) ==
    IF code = <<>> \/ code = NotAString THEN <<>>
    ELSE LET trimmed == Trim(code)
         IN IF trimmed = <<>> THEN <<>>
            ELSE IF IsDomesticCode(trimmed) THEN <<ToLowerCase(trimmed)>>
            ELSE IF IsHKCode(trimmed) THEN <<ToLowerCase(trimmed)>>
            ELSE IF IsUSCode(trimmed) THEN <<ToLowerCase(trimmed)>>
            ELSE IF IsBareNumber(trimmed)
                 THEN <<GetStockPrefix(DigitsToNumber(trimmed, 1, 6)) \o trimmed>>
            ELSE IF /\ HasCJK(trimmed) /\ loaded /\ Len(database) > 0
                    /\ SearchStocks(database, trimmed) # <<>>
                 THEN <<SearchStocks(database, trimmed)[1].number>>
            ELSE <<trimmed>>

\* One turn of the loop of normalizeStockCodes: what it pushes for `code`,
\* nothing or one string.
NormalizeOne(code, database, loaded) ==
    IF code = <<>> \/ code = NotAString THEN <<>>
    ELSE LET trimmed == Trim(code)
         IN IF trimmed = <<>> THEN <<>>
            ELSE IF IsDomesticCode(trimmed) THEN <<ToLowerCase(trimmed)>>
            ELSE IF IsHKCode(trimmed) THEN <<ToLowerCase(trimmed)>>
            ELSE IF IsUSCode(trimmed) THEN <<ToLowerCase(trimmed)>>
            ELSE IF IsBareNumber(trimmed)
                 THEN <<GetStockPrefix(DigitsToNumber(trimmed, 1, 6)) \o trimmed>>
            ELSE IF /\ HasCJK(trimmed) /\ loaded /\ Len(database) > 0
                    /\ SearchStocks(database, trimmed) # <<>>
                 THEN <<SearchStocks(database, trimmed)[1].code>>
            ELSE <<trimmed>>

\* [...new Set(normalized)]: the first occurrence of each string, in order
RECURSIVE UniqueInOrder(_)
UniqueInOrder(strs) ==
    IF strs = <<>> THEN <<>>
    ELSE LET front == UniqueInOrder(SubSeq(strs, 1, Len(strs) - 1))
             last == strs[Len(strs)]
         IN IF \E k \in DOMAIN front : front[k] = last
            THEN front ELSE Append(front, last)

RECURSIVE NormalizeAll(_, _, _)
NormalizeAll(codes, database, loaded) ==
    IF codes = <<>> THEN <<>>
    ELSE NormalizeOne(codes[1], database, loaded)
         \o NormalizeAll(Tail(codes), database, loaded)

\* normalizeStockCodes(codes), with the module's stockDatabase and
\* stockDatabaseLoaded
NormalizeStockCodes(codes, database, loaded) ==
    UniqueInOrder(NormalizeAll(codes, database, loaded))

\* The strings of config.stockCodes in the model.
RawCodes ==
    {<<"s", "z", "0", "0", "0", "0", "0", "1">>,
     <<"S", "Z", "0", "0", "0", "0", "0", "1">>,
     <<" ", "s", "h", "6", "0", "0", "0", "0", "0", " ">>,
     <<"h", "k", "0", "0", "7", "0", "0">>,
     <<"H", "K", "0", "0", "7", "0", "0">>,
     <<"u", "s", ".", "B", "A", "B", "A">>,
     <<"U", "S", ".", "b", "h", ".", "a">>,
     <<"0", "0", "0", "0", "0", "1">>,
     <<"6", "0", "0", "0", "0", "0">>,
     <<"CJK1", "CJK2">>,
     <<"A", "B">>,
     <<"a", "b">>,
     <<>>,
     <<" ">>,
     NotAString}

\* Six-digit numbers at both ends of every range getStockPrefix tests.
BareNumbers ==
    {0, 1, 6999, 7000, 299999, 300000, 302999, 303000, 599999, 600000,
     605999, 606000, 687999, 688000, 689999, 690000, 919999, 920000, 920999,
     921000, 999999}

\* stockDatabase and stockDatabaseLoaded: not loaded, loaded but empty, and
\* loaded with two entries whose names hold the searched name.
NamedStocks ==
    <<StockItem(<<"s", "z", "0", "0", "0", "0", "0", "2">>,
                <<"CJK1", "CJK2", "A">>),
      StockItem(<<"s", "h", "6", "0", "0", "0", "3", "6">>,
                <<"CJK1", "CJK2">>)>>
Databases ==
    {[stocks |-> <<>>, loaded |-> FALSE],
     [stocks |-> <<>>, loaded |-> TRUE],
     [stocks |-> NamedStocks, loaded |-> TRUE]}

MaxInput == 2

CallNormalizeStockCodes(codes, db) ==
    /\ callFn = NoCall
    /\ callFn' = "normalizeStockCodes"
    /\ callIn' = [codes |-> codes, db |-> db]
    /\ callOut' = [codes |-> NormalizeStockCodes(codes, db.stocks, db.loaded)]
    /\ UNCHANGED <<execVars, quoteVars, fetchVars, extVars>>

(***************************************************************************)
(* ConfigManager (config.ts): the guards of the stockCodes setting         *)
(***************************************************************************)

\* The most stocks the list may hold.
MaxStockCodes == 7

\* /^[一-龥]{2,20}$/
IsChineseName(str) ==
    /\ Len(str) >= 2
    /\ Len(str) <= 20
    /\ \A k \in DOMAIN str : IsCJK(str[k])

\* isValidStockCode(code)
IsValidStockCode(code) ==
    IF code = <<>> \/ code = NotAString THEN FALSE
    ELSE LET trimmed == Trim(code)
         IN IF trimmed = <<>> THEN FALSE
            ELSE \/ IsDomesticCode(trimmed)
                 \/ IsHKCode(trimmed)
                 \/ IsUSCode(trimmed)
                 \/ IsBareNumber(trimmed)
                 \/ IsChineseName(trimmed)

\* addStockCode with the duplicate test comparing the strings as they are.
AddStockCodeExactMatch(codes, code) ==
    IF ~IsValidStockCode(code) THEN [success |-> FALSE, codes |-> codes]
    ELSE LET trimmedCode == Trim(code)
         IN IF \E k \in DOMAIN codes : codes[k] = trimmedCode
            THEN [success |-> FALSE, codes |-> codes]
            ELSE IF Len(codes) >= MaxStockCodes
            THEN [success |-> FALSE, codes |-> codes]
            ELSE [success |-> TRUE, codes |-> Append(codes, trimmedCode)]

\* addStockCode(code) finding `codes` in the settings: its answer and the
\* list it leaves there.
AddStockCodeTo(codes, code) ==
    IF ~IsValidStockCode(code) THEN [success |-> FALSE, codes |-> codes]
    ELSE LET trimmedCode == Trim(code)
             normalizedCode == ToLowerCase(trimmedCode)
         IN IF \E k \in DOMAIN codes : ToLowerCase(codes[k]) = normalizedCode
            THEN [success |-> FALSE, codes |-> codes]
            ELSE IF Len(codes) >= MaxStockCodes
            THEN [success |-> FALSE, codes |-> codes]
            ELSE [success |-> TRUE, codes |-> Append(codes, trimmedCode)]

\* sz00000<i>
NumberedCode(i) == <<"s", "z", "0", "0", "0", "0", "0", NumberToString(i)[1]>>
NumberedCodes(n) == [i \in 1 .. n |-> NumberedCode(i - 1)]

\* What validateAndCleanStockCodes can be handed besides an array.
NotAnArray == <<<<"not-an-array">>>>

\* The loop of validateAndCleanStockCodes with `seen` holding the trimmed
\* codes as they are.
RECURSIVE CleanLoopExactMatch(_, _, _)
CleanLoopExactMatch(codes, validCodes, seen) ==
    IF codes = <<>> THEN validCodes
    ELSE LET code == codes[1]
             trimmed == Trim(code)
         IN IF code = <<>> \/ code = NotAString
            THEN CleanLoopExactMatch(Tail(codes), validCodes, seen)
            ELSE IF trimmed = <<>> \/ ~IsValidStockCode(trimmed)
            THEN CleanLoopExactMatch(Tail(codes), validCodes, seen)
            ELSE IF trimmed \in seen
            THEN CleanLoopExactMatch(Tail(codes), validCodes, seen)
            ELSE IF Len(validCodes) + 1 >= MaxStockCodes
            THEN Append(validCodes, trimmed)
            ELSE CleanLoopExactMatch(Tail(codes), Append(validCodes, trimmed),
                                     seen \cup {trimmed})

\* The loop of validateAndCleanStockCodes over the codes left, with the
\* validCodes and the seen set built so far.
RECURSIVE CleanLoop(_, _, _)
CleanLoop(codes, validCodes, seen) ==
    IF codes = <<>> THEN validCodes
    ELSE LET code == codes[1]
             trimmed == Trim(code)
             normalized == ToLowerCase(trimmed)
         IN IF code = <<>> \/ code = NotAString
            THEN CleanLoop(Tail(codes), validCodes, seen)
            ELSE IF trimmed = <<>> \/ ~IsValidStockCode(trimmed)
            THEN CleanLoop(Tail(codes), validCodes, seen)
            ELSE IF normalized \in seen
            THEN CleanLoop(Tail(codes), validCodes, seen)
            ELSE IF Len(validCodes) + 1 >= MaxStockCodes
            THEN Append(validCodes, trimmed)
            ELSE CleanLoop(Tail(codes), Append(validCodes, trimmed),
                           seen \cup {normalized})

\* validateAndCleanStockCodes(codes)
ValidateAndCleanStockCodes(codes) ==
    IF codes = NotAnArray THEN <<>> ELSE CleanLoop(codes, <<>>, {})

\* The entries of the lists cleaned in the model, and the runs of numbered
\* codes they are put before or after.
CleanPool ==
    {<<"s", "z", "0", "0", "0", "0", "0", "1">>,
     <<" ", "S", "Z", "0", "0", "0", "0", "0", "1", " ">>,
     <<"h", "k", "0", "0", "7", "0", "0">>,
     <<"H", "K", "0", "0", "7", "0", "0">>,
     <<"CJK1", "CJK2">>,
     <<"a", "b">>,
     <<" ">>,
     <<>>,
     NotAString}
CleanRuns ==
    {<<>>, NumberedCodes(MaxStockCodes - 1), NumberedCodes(MaxStockCodes),
     NumberedCodes(MaxStockCodes + 3)}

CallValidateAndClean(codes) ==
    /\ callFn = NoCall
    /\ callFn' = "validateAndCleanStockCodes"
    /\ callIn' = [codes |-> codes]
    /\ callOut' = [cleaned |-> ValidateAndCleanStockCodes(codes),
                   again |-> ValidateAndCleanStockCodes(
                                 ValidateAndCleanStockCodes(codes))]
    /\ UNCHANGED <<execVars, quoteVars, fetchVars, extVars>>


(***************************************************************************)
(* ConfigManager (config.ts): the settings store and addStockCode          *)
(***************************************************************************)

\* The stockCodes setting when the extension starts: lists of at most
\* MaxStockCodes entries, no two equal ignoring case; entries typed in by
\* hand may be upper-case, untrimmed or no code at all.
ConfiguredLists ==
    {<<>>,
     <<<<"S", "Z", "0", "0", "0", "0", "0", "1">>>>,
     <<<<" ", "s", "h", "6", "0", "0", "0", "0", "0", " ">>, <<"a", "b">>>>,
     NumberedCodes(MaxStockCodes - 1),
     NumberedCodes(MaxStockCodes)}

\* The arguments of addStockCode in the model.
AddInputs ==
    {<<"s", "z", "0", "0", "0", "0", "0", "1">>,
     <<" ", "S", "Z", "0", "0", "0", "0", "0", "1">>,
     <<" ", "s", "h", "6", "0", "0", "0", "0", "0", " ">>,
     <<"H", "K", "0", "0", "7", "0", "0">>,
     <<"6", "0", "0", "0", "0", "0">>,
     <<"CJK1", "CJK2">>,
     <<"CJK1">>,
     <<"a", "b">>,
     <<"s", "z", "1", "2">>,
     <<" ">>,
     <<>>}

NotAdded == [called |-> FALSE, code |-> <<>>, found |-> <<>>, success |-> FALSE]

ConfigDefault ==
    /\ stockCodes = <<>>
    /\ lastAdd = NotAdded

ConfigInit ==
    /\ stockCodes \in ConfiguredLists
    /\ lastAdd = NotAdded

\* await configManager.addStockCode(code)
AddStockCode(code) ==
    /\ stockCodes' = AddStockCodeTo(stockCodes, code).codes
    /\ lastAdd' = [called |-> TRUE, code |-> code, found |-> stockCodes,
                   success |-> AddStockCodeTo(stockCodes, code).success]
    /\ UNCHANGED <<coreVars, barVars, viewerVars, loaderVars>>

ConfigNext == \E code \in AddInputs : AddStockCode(code)


(***************************************************************************)
(* StatusBarManager (statusBarManager.ts): the settings item and the       *)
(* seven stock items                                                       *)
(***************************************************************************)

\* maxStocks
MaxStocks == 7

\* An unset text is '', an unset tooltip or color is undefined.
NoText == <<>>
NoTooltip == <<>>
NoColor == "undefined"

\* A status bar item as initializeItems creates it.
FreshItem ==
    [text |-> NoText, tooltip |-> NoTooltip, color |-> NoColor,
     command |-> "stockViewer.showDetails", visible |-> FALSE]
FreshItems == [i \in 1 .. MaxStocks |-> FreshItem]

\* formatChangePercent(stock.changePercent) for a quote that is up or down
PercentText(stock) == IF stock.up THEN "+5.00%" ELSE "-3.00%"

\* parts.join(' ') with showPrice off and showChangePercent on
StockText(stock, showStockName) ==
    (IF showStockName THEN stock.name ELSE <<>>) \o <<PercentText(stock)>>

\* createSingleStockTooltip(stock, dataSource).value
StockTooltip(stock) == <<"tooltip of">> \o stock.name \o <<PercentText(stock)>>

\* The color updateStocks wants for the stock.
StockColor(stock, colorfulDisplay) ==
    IF ~colorfulDisplay THEN NoColor
    ELSE IF stock.up THEN "charts.red" ELSE "charts.green"

\* One turn of the first loop of updateStocks: the item after it.
UpdateItem(item, stock, showStockName, colorfulDisplay) ==
    LET newText == StockText(stock, showStockName)
        newTooltip == StockTooltip(stock)
        newColor == StockColor(stock, colorfulDisplay)
        needsUpdate == \/ item.text # newText
                       \/ item.tooltip # newTooltip
                       \/ item.command # "stockViewer.showDetails"
                       \/ item.color # newColor
    IN [text |-> newText, tooltip |-> newTooltip, color |-> newColor,
        command |-> "stockViewer.showDetails",
        visible |-> IF needsUpdate \/ newText = NoText THEN TRUE
                    ELSE item.visible]

\* One turn of the second loop of updateStocks.
HideSurplus(item) ==
    IF item.text # NoText
    THEN [item EXCEPT !.visible = FALSE, !.text = NoText]
    ELSE item

\* The items with a text, in order.
WithText(items) == SelectSeq(items, LAMBDA item : item.text # NoText)

\* updateAlignmentIfNeeded(alignment): the stock items after it.  New items
\* are created when the alignment changes, and the texts that were set are
\* put back on the first of them, which are shown.
Realigned(items, current, alignment) ==
    IF current = alignment THEN items
    ELSE LET data == WithText(items)
         IN [i \in 1 .. MaxStocks |->
                IF i <= Len(data)
                THEN [FreshItem EXCEPT !.text = data[i].text,
                                       !.tooltip = data[i].tooltip,
                                       !.color = data[i].color,
                                       !.visible = TRUE]
                ELSE FreshItem]

\* updateStocks(stocks, ...): the stock items after it.
UpdatedItems(items, current, stocks, showStockName, colorfulDisplay, alignment) ==
    LET aligned == Realigned(items, current, alignment)
        displayCount == Min(Len(stocks), MaxStocks)
    IN [i \in 1 .. MaxStocks |->
           IF i <= displayCount
           THEN UpdateItem(aligned[i], stocks[i], showStockName, colorfulDisplay)
           ELSE HideSurplus(aligned[i])]

\* hideAllStockItems()
AllHidden(items) == [i \in 1 .. MaxStocks |-> [items[i] EXCEPT !.visible = FALSE]]

\* The quotes handed to updateStocks in the model: n stocks named 1 .. n,
\* all up or all down, for n none, one, two, as many as the items and more.
MaxQuotes == 8
QuoteCounts == {0, 1, 2, MaxStocks, MaxQuotes}
StockNamed(i, up) == [name |-> NumberToString(i), up |-> up]
StocksShown(n, up) == [i \in 1 .. n |-> StockNamed(i, up)]

NoBarCall == [op |-> "none", n |-> 0]

BarInit ==
    /\ stockBarItems = FreshItems
    /\ settingsShown = TRUE
    /\ currentAlignment = "right"
    /\ lastBar = NoBarCall

\* The manager's fields as one value, and the actions' way of setting them.
TheBar ==
    [items |-> stockBarItems, shown |-> settingsShown,
     alignment |-> currentAlignment, last |-> lastBar]
SetBar(bar) ==
    /\ stockBarItems' = bar.items
    /\ settingsShown' = bar.shown
    /\ currentAlignment' = bar.alignment
    /\ lastBar' = bar.last

\* updateStocks(stocks, ...) on the manager `bar`
BarUpdateStocks(bar, stocks, showStockName, colorfulDisplay, alignment) ==
    [items |-> UpdatedItems(bar.items, bar.alignment, stocks, showStockName,
                            colorfulDisplay, alignment),
     shown |-> TRUE,
     alignment |-> alignment,
     last |-> [op |-> "updateStocks", n |-> Len(stocks)]]

\* showError(message, showPrefix, customTooltip) on the manager `bar`
BarShowError(bar, message) ==
    [bar EXCEPT
       !.items = [AllHidden(bar.items) EXCEPT
                    ![1] = [text |-> <<message>>,
                            tooltip |-> <<"error", message>>,
                            color |-> NoColor, command |-> "undefined",
                            visible |-> TRUE]],
       !.shown = TRUE,
       !.last = [op |-> "showError", n |-> 0]]

\* showNotConfigured(showPrefix) on the manager `bar`
BarShowNotConfigured(bar) ==
    [bar EXCEPT
       !.items = [AllHidden(bar.items) EXCEPT
                    ![1] = [text |-> <<"not configured">>,
                            tooltip |-> <<"click to configure">>,
                            color |-> NoColor,
                            command |-> "stockViewer.openSettings",
                            visible |-> TRUE]],
       !.shown = TRUE,
       !.last = [op |-> "showNotConfigured", n |-> 0]]

\* hide() on the manager `bar`
BarHide(bar) ==
    [bar EXCEPT !.items = AllHidden(bar.items), !.shown = FALSE,
                !.last = [op |-> "hide", n |-> 0]]

\* statusBarManager.updateStocks(stocks, ...)
UpdateStocks(stocks, showStockName, colorfulDisplay, alignment) ==
    /\ SetBar(BarUpdateStocks(TheBar, stocks, showStockName, colorfulDisplay,
                              alignment))
    /\ UNCHANGED <<coreVars, configVars, viewerVars, loaderVars>>

\* statusBarManager.showError(message, showPrefix, customTooltip)
ShowError(message) ==
    /\ SetBar(BarShowError(TheBar, message))
    /\ UNCHANGED <<coreVars, configVars, viewerVars, loaderVars>>

\* statusBarManager.showNotConfigured(showPrefix)
ShowNotConfigured ==
    /\ SetBar(BarShowNotConfigured(TheBar))
    /\ UNCHANGED <<coreVars, configVars, viewerVars, loaderVars>>

\* statusBarManager.hide()
HideBar ==
    /\ SetBar(BarHide(TheBar))
    /\ UNCHANGED <<coreVars, configVars, viewerVars, loaderVars>>

BarNext ==
    \/ \E n \in QuoteCounts, up \in BOOLEAN, showStockName \in BOOLEAN,
          colorfulDisplay \in BOOLEAN, alignment \in {"left", "right"} :
         UpdateStocks(StocksShown(n, up), showStockName, colorfulDisplay,
                      alignment)
    \/ \E message \in {"closed", "failed"} : ShowError(message)
    \/ ShowNotConfigured
    \/ HideBar


(***************************************************************************)
(* StockViewer (extension.ts): the polling timer, the configuration        *)
(* listener and the runs of updateStatusBar                                *)
(***************************************************************************)

Max(a, b) == IF a >= b THEN a ELSE b

\* MIN_UPDATE_INTERVAL, in milliseconds
MinUpdateInterval == 3000

\* ConfigManager.get().updateInterval without the upper limit.
UpdateIntervalMsNoCeiling(seconds) == (Max(seconds, Fx(3)) * 1000) \div 2

\* ConfigManager.get().updateInterval, in milliseconds, for the configured
\* number of seconds (fixed point, as all fractional numbers here):
\* Math.min(Math.max(seconds, 3), 1800) * 1000
UpdateIntervalMs(seconds) ==
    (Min(Max(seconds, Fx(3)), Fx(1800)) * 1000) \div 2

\* The period start() gives setInterval.
TimerPeriod(config) ==
    Max(UpdateIntervalMs(config.updateInterval), MinUpdateInterval)

\* The config the timer depends on, as package.json defaults them, and
\* the values the user gives them in the model: 2.5, 8 and 1800.5 seconds.
DefaultSettings ==
    [enableAutoUpdate |-> TRUE, stopOnMarketClose |-> FALSE,
     updateInterval |-> Fx(8)]
IntervalSettings == {Fx(2) + 1, Fx(1800) + 1}
Settings ==
    {DefaultSettings,
     [DefaultSettings EXCEPT !.enableAutoUpdate = FALSE],
     [DefaultSettings EXCEPT !.stopOnMarketClose = TRUE]}
    \cup {[DefaultSettings EXCEPT !.updateInterval = i] : i \in IntervalSettings}

\* The stockCodes lists the user saves in the model: none, and an
\* upper-case code followed by an entry typed in by hand that is blank.
UpperCode == <<"S", "Z", "0", "0", "0", "0", "0", "1">>
BlankEntry == <<" ">>
ViewerLists == {<<>>, <<UpperCode, BlankEntry>>}

\* updateTimer when undefined, and the handles setInterval returns: the
\* smallest not in use.
NoTimer == 0
NewTimer(live) ==
    CHOOSE id \in 1 .. Cardinality(live) + 1 :
        /\ \A t \in live : t.id # id
        /\ \A other \in 1 .. id - 1 : \E t \in live : t.id = other

\* clearInterval that leaves the timer running.
ClearedTimersNone(live, handle) == live

\* clearInterval(handle): the timers still live after it.
ClearedTimers(live, handle) == {t \in live : t.id # handle}

\* The fields of the viewer one handler works on, as one value: updateTimer,
\* the timers live in the runtime, the runs of updateStatusBar awaiting
\* their fetch, the configuration handlers awaiting their write, and the
\* status bar.  A live timer is its handle, its period in milliseconds and
\* the updateInterval setting, in seconds, read when it was installed.
TheViewer ==
    [timer |-> updateTimer, live |-> liveTimers, runs |-> runs,
     handlers |-> handlers, bar |-> TheBar]
SetViewer(v) ==
    /\ updateTimer' = v.timer
    /\ liveTimers' = v.live
    /\ runs' = v.runs
    /\ handlers' = v.handlers
    /\ SetBar(v.bar)

\* updateStatusBar() up to its await, reading `codes` and `config` from
\* the configuration; the status bar is configured to be shown.
BeginUpdate(v, codes, config) ==
    IF codes = <<>>
    THEN [v EXCEPT !.bar = BarShowNotConfigured(v.bar)]
    ELSE [v EXCEPT !.runs = Append(v.runs,
                                   [codes |-> codes,
                                    stop |-> config.stopOnMarketClose,
                                    overtaken |-> FALSE])]

\* if (this.updateTimer) { clearInterval(this.updateTimer); ... }
CancelTimer(v) ==
    IF v.timer # NoTimer
    THEN [v EXCEPT !.live = ClearedTimers(v.live, v.timer), !.timer = NoTimer]
    ELSE v

\* start() installs a timer whenever auto-update is enabled.
InstallsTimerWhenEnabled(config, open) == config.enableAutoUpdate

\* The condition under which start() reaches setInterval; `open` is
\* isMarketOpen() on the wall clock.
InstallsTimer(config, open) ==
    /\ config.enableAutoUpdate
    /\ ~(config.stopOnMarketClose /\ ~open)

\* start()
StartOn(v, codes, config, open) ==
    LET first == BeginUpdate(CancelTimer(v), codes, config)
    IN IF InstallsTimer(config, open)
       THEN LET id == NewTimer(first.live)
            IN [first EXCEPT
                  !.timer = id,
                  !.live = @ \cup {[id |-> id, period |-> TimerPeriod(config),
                                     seconds |-> config.updateInterval]}]
       ELSE IF config.enableAutoUpdate
       THEN BeginUpdate(first, codes, config)
       ELSE first

\* refresh()
RefreshOn(v, codes, config, open) ==
    LET updated == BeginUpdate(v, codes, config)
    IN IF config.enableAutoUpdate /\ updated.timer = NoTimer
       THEN StartOn(updated, codes, config, open)
       ELSE updated

\* The tick cancels the timer: stopOnMarketClose with the gate closed, or
\* auto-update disabled.
TickCancels(config, open) ==
    \/ config.stopOnMarketClose /\ ~open
    \/ ~config.enableAutoUpdate

\* The callback of setInterval
TickOn(v, codes, config, open) ==
    IF config.stopOnMarketClose /\ ~open
    THEN BeginUpdate(CancelTimer(v), codes, config)
    ELSE IF ~config.enableAutoUpdate
    THEN CancelTimer(v)
    ELSE BeginUpdate(v, codes, config)

\* The configuration listener on an event that affects stockCodes, now
\* `codes`: validateAndFixStockCodes leaves a clean list alone and the
\* listener goes on at once, to start() when a timer setting changed too;
\* otherwise the listener awaits the write of the cleaned list.
OnCodesChanged(v, codes, config, open, restart) ==
    LET cleaned == ValidateAndCleanStockCodes(codes)
    IN IF cleaned # codes
       THEN [v EXCEPT !.handlers = Append(v.handlers,
                                          [cleaned |-> cleaned,
                                           restart |-> restart])]
       ELSE IF restart THEN StartOn(v, codes, config, open)
       ELSE BeginUpdate(v, codes, config)

\* A quote of fetchStocks for the code asked for; the name defaults to the
\* code, and the quotes of the model are all up.
QuoteOf(code) == [code |-> code, name |-> code, up |-> TRUE]

\* fetchStocks(normalizedCodes, dataSource) answering for the positions in
\* `found`, in the order asked.
RECURSIVE QuotesFound(_, _, _)
QuotesFound(normalizedCodes, found, i) ==
    IF i > Len(normalizedCodes) THEN <<>>
    ELSE (IF i \in found THEN <<QuoteOf(normalizedCodes[i])>> ELSE <<>>)
         \o QuotesFound(normalizedCodes, found, i + 1)

\* normalizeStockCodes(config.stockCodes) in updateStatusBar; the universe
\* is not loaded.
Normalized(codes) == NormalizeStockCodes(codes, <<>>, FALSE)

\* normalizeStockCodes([originalCode])[0] is undefined.
NoCanonicalForm(originalCode) == Normalized(<<originalCode>>) = <<>>

\* successCodes.includes(normalized.toLowerCase())
IsFound(originalCode, stocks) ==
    \E k \in DOMAIN stocks :
        ToLowerCase(stocks[k].code)
          = ToLowerCase(Normalized(<<originalCode>>)[1])

\* The part of updateStatusBar after the fetch, for the run `run` and the
\* quotes `stocks`: what it shows ("stocks", or the message of showError),
\* whether it assigns currentStocks, and the list it writes to the
\* configuration, if any.  `dataOpen` is isMarketOpenByData of the first
\* quote, `open` isMarketOpen() on the wall clock.
Outcome(run, stocks, dataOpen, open) ==
    LET quiet == [shows |-> "closed", assigns |-> FALSE, writes |-> FALSE,
                  list |-> run.codes]
    IN IF run.stop /\ stocks # <<>> /\ ~dataOpen THEN quiet
       ELSE IF run.stop /\ stocks = <<>> /\ ~open THEN quiet
       ELSE IF stocks = <<>>
       THEN [quiet EXCEPT !.shows = "failed", !.assigns = TRUE]
       ELSE IF Len(stocks) >= Len(run.codes)
       THEN [quiet EXCEPT !.shows = "stocks", !.assigns = TRUE]
       ELSE IF \E k \in DOMAIN run.codes : NoCanonicalForm(run.codes[k])
       THEN [quiet EXCEPT !.shows = "update failed"]
       ELSE LET validStockCodes ==
                    SelectSeq(run.codes, LAMBDA code : IsFound(code, stocks))
            IN [shows |-> "stocks", assigns |-> TRUE,
                writes |-> validStockCodes # run.codes,
                list |-> validStockCodes]

\* The run at position k leaves.  When it has put its quotes in
\* currentStocks and in the status bar (`assigned`), the runs started
\* before it are overtaken: what they bring is older than what is held.
RunsAfter(rs, k, assigned) ==
    [i \in 1 .. Len(rs) - 1 |->
        IF i < k THEN [rs[i] EXCEPT !.overtaken = @ \/ assigned]
        ELSE rs[i + 1]]

\* The part of updateStatusBar after the fetch, as a call: the list and the
\* stopOnMarketClose setting read from the configuration, the quotes
\* fetchStocks answers for the positions in `found`, and the two gates.
RemovalPool ==
    {UpperCode,
     <<"6", "0", "0", "0", "0", "0">>,
     <<"h", "k", "0", "0", "7", "0", "0">>,
     BlankEntry}
CallUpdateStatusBar(codes, found, stop, dataOpen, open) ==
    /\ callFn = NoCall
    /\ codes # <<>>
    /\ found \subseteq DOMAIN Normalized(codes)
    /\ callFn' = "updateStatusBar"
    /\ callIn' = [codes |-> codes,
                  stocks |-> QuotesFound(Normalized(codes), found, 1),
                  stop |-> stop, dataOpen |-> dataOpen, open |-> open]
    /\ callOut' = [outcome |->
                     Outcome([codes |-> codes, stop |-> stop,
                              overtaken |-> FALSE],
                             QuotesFound(Normalized(codes), found, 1),
                             dataOpen, open)]
    /\ UNCHANGED <<execVars, quoteVars, fetchVars, extVars>>

NoOp == [op |-> "none", started |-> FALSE, stale |-> FALSE]
Op(name) == [NoOp EXCEPT !.op = name]

MaxRuns == 2
MaxHandlers == 1

ViewerInit ==
    /\ settings = DefaultSettings
    /\ marketOpen = TRUE
    /\ updateTimer = NoTimer
    /\ liveTimers = {}
    /\ runs = <<>>
    /\ handlers = <<>>
    /\ currentStocks = <<>>
    /\ disposed = FALSE
    /\ tickCancelled = FALSE
    /\ lastOp = NoOp

\* What every handler of the viewer leaves alone.
ViewerFrame == UNCHANGED <<coreVars, lastAdd, loaderVars>>

\* A handler may run: the extension is not disposed, and the runs and
\* pending handlers it leaves fit the model.
Fits(v) == Len(v.runs) <= MaxRuns /\ Len(v.handlers) <= MaxHandlers

\* stockViewer.start()
Start ==
    /\ ~disposed
    /\ \E v \in {StartOn(TheViewer, stockCodes, settings, marketOpen)} :
           Fits(v) /\ SetViewer(v)
    /\ lastOp' = [Op("start") EXCEPT !.started = TRUE]
    /\ tickCancelled' = FALSE
    /\ UNCHANGED <<stockCodes, settings, marketOpen, currentStocks, disposed>>
    /\ ViewerFrame

\* stockViewer.refresh()
Refresh ==
    /\ ~disposed
    /\ \E v \in {RefreshOn(TheViewer, stockCodes, settings, marketOpen)} :
           Fits(v) /\ SetViewer(v)
    /\ lastOp' = [Op("refresh") EXCEPT
                    !.started = settings.enableAutoUpdate
                                /\ updateTimer = NoTimer]
    /\ tickCancelled' = FALSE
    /\ UNCHANGED <<stockCodes, settings, marketOpen, currentStocks, disposed>>
    /\ ViewerFrame

\* A tick of the live timer t.
Tick(t) ==
    /\ t \in liveTimers
    /\ \E v \in {TickOn(TheViewer, stockCodes, settings, marketOpen)} :
           Fits(v) /\ SetViewer(v)
    /\ lastOp' = Op("tick")
    /\ tickCancelled' = TickCancels(settings, marketOpen)
    /\ UNCHANGED <<stockCodes, settings, marketOpen, currentStocks, disposed>>
    /\ ViewerFrame

\* The user saves new settings: onDidChangeConfiguration fires with the
\* stockCodes list, the timer settings, or both changed.
EditSettings(codes, edited) ==
    /\ ~disposed
    /\ <<codes, edited>> # <<stockCodes, settings>>
    /\ stockCodes' = codes
    /\ settings' = edited
    /\ \E v \in {IF codes # stockCodes
                THEN OnCodesChanged(TheViewer, codes, edited, marketOpen,
                                    edited # settings)
                ELSE StartOn(TheViewer, codes, edited, marketOpen)} :
           Fits(v) /\ SetViewer(v)
    /\ lastOp' = [Op("configuration") EXCEPT
                    !.started = \/ codes = stockCodes
                                \/ /\ edited # settings
                                   /\ ValidateAndCleanStockCodes(codes) = codes]
    /\ tickCancelled' = FALSE
    /\ UNCHANGED <<marketOpen, currentStocks, disposed>>
    /\ ViewerFrame

\* The user changes a stockViewer setting that is none of the above
\* (showNotifications): the listener only calls updateStatusBar.
EditOther ==
    /\ ~disposed
    /\ \E v \in {BeginUpdate(TheViewer, stockCodes, settings)} :
           Fits(v) /\ SetViewer(v)
    /\ lastOp' = Op("other setting")
    /\ UNCHANGED <<stockCodes, settings, marketOpen, currentStocks, disposed,
                   tickCancelled>>
    /\ ViewerFrame

\* The write of validateAndFixStockCodes lands: the cleaned list is in the
\* configuration, the listener runs for that change (unless disposed) and
\* finds the list clean, and the listener that awaited the write goes on.
HandlerResumes ==
    /\ handlers # <<>>
    /\ LET h == handlers[1]
           landed == [TheViewer EXCEPT !.handlers = Tail(handlers)]
           nested == IF disposed THEN landed
                     ELSE OnCodesChanged(landed, h.cleaned, settings,
                                         marketOpen, FALSE)
           v == IF h.restart
                THEN StartOn(nested, h.cleaned, settings, marketOpen)
                ELSE BeginUpdate(nested, h.cleaned, settings)
       IN /\ \E after \in {v} : Fits(after) /\ SetViewer(after)
          /\ stockCodes' = h.cleaned
          /\ lastOp' = [Op("configuration") EXCEPT !.started = h.restart]
    /\ tickCancelled' = FALSE
    /\ UNCHANGED <<settings, marketOpen, currentStocks, disposed>>
    /\ ViewerFrame

\* The fetch of the run at position k answers with the quotes of the
\* positions in `found`, and updateStatusBar goes on to its end.
FetchReturns(k, found, dataOpen) ==
    /\ k \in DOMAIN runs
    /\ found \subseteq DOMAIN Normalized(runs[k].codes)
    /\ \E stocks \in {QuotesFound(Normalized(runs[k].codes), found, 1)} :
       \E out \in {Outcome(runs[k], stocks, dataOpen, marketOpen)} :
         LET left == [TheViewer EXCEPT
                        !.runs = RunsAfter(runs, k, out.assigns)]
             nested == IF out.writes /\ ~disposed
                       THEN OnCodesChanged(left, out.list, settings,
                                           marketOpen, FALSE)
                       ELSE left
             v == [nested EXCEPT
                     !.bar = IF out.shows = "stocks"
                             THEN BarUpdateStocks(nested.bar, stocks, FALSE,
                                                  TRUE, "right")
                             ELSE BarShowError(nested.bar, out.shows)]
         IN /\ \E after \in {v} : Fits(after) /\ SetViewer(after)
            /\ stockCodes' = IF out.writes THEN out.list ELSE stockCodes
            /\ currentStocks' = IF ~out.assigns THEN currentStocks
                                ELSE IF out.shows = "failed" THEN <<>>
                                ELSE stocks
            /\ lastOp' = [Op("fetch returns") EXCEPT
                            !.stale = /\ runs[k].overtaken
                                      /\ out.assigns
                                      /\ currentStocks' # currentStocks]
    /\ UNCHANGED <<settings, marketOpen, disposed, tickCancelled>>
    /\ ViewerFrame

\* stockViewer.stop()
Stop ==
    /\ ~disposed
    /\ \E v \in {[CancelTimer(TheViewer) EXCEPT !.bar = BarHide(TheBar)]} :
           SetViewer(v)
    /\ lastOp' = Op("stop")
    /\ UNCHANGED <<stockCodes, settings, marketOpen, currentStocks, disposed,
                   tickCancelled>>
    /\ ViewerFrame

\* stockViewer.dispose()
Dispose ==
    /\ ~disposed
    /\ \E v \in {[CancelTimer(TheViewer) EXCEPT !.bar = BarHide(TheBar)]} :
           SetViewer(v)
    /\ disposed' = TRUE
    /\ lastOp' = Op("dispose")
    /\ UNCHANGED <<stockCodes, settings, marketOpen, currentStocks,
                   tickCancelled>>
    /\ ViewerFrame

\* The wall clock passes a session boundary.
ClockPasses ==
    /\ marketOpen' = ~marketOpen
    /\ lastOp' = Op("clock")
    /\ UNCHANGED <<stockCodes, settings, updateTimer, liveTimers, runs,
                   handlers, currentStocks, disposed, tickCancelled, barVars>>
    /\ ViewerFrame

ViewerNext ==
    \/ Start
    \/ Refresh
    \/ \E t \in liveTimers : Tick(t)
    \/ \E codes \in ViewerLists, edited \in Settings :
         EditSettings(codes, edited)
    \/ EditOther
    \/ HandlerResumes
    \/ \E k \in 1 .. MaxRuns, found \in SUBSET {1}, dataOpen \in BOOLEAN :
         FetchReturns(k, found, dataOpen)
    \/ Stop
    \/ Dispose
    \/ ClockPasses

\* The calls of the pure helpers, and of the handlers taken as functions.
UtilNext ==
    \/ \E day \in WeekDays, hours \in ClockHours, minutes \in ClockMinutes :
         CallIsMarketOpen(day, hours, minutes)
    \/ \E made \in StampsMade, now \in Clocks :
         CallIsMarketOpenByData(
             TencentTimestamp(made.date, made.hours, made.minutes), made,
             "tencent", now)
    \/ \E made \in StampsMade, now \in Clocks :
         CallIsMarketOpenByData(
             SinaTimestamp(made.date, made.hours, made.minutes), made,
             "sina", now)
    \/ \E stamp \in MalformedStamps, dataSource \in {"tencent", "sina"},
          now \in Clocks :
         CallIsMarketOpenByData(stamp, NoStamp, dataSource, now)
    \/ \E database \in Universes, keyword \in SearchKeywords :
         CallSearchStocks(database, keyword)
    \/ \E prefix \in GenPrefixes, start \in GenNumbers, end \in GenNumbers :
         CallGenerateCodes(prefix, start, end)
    \/ \E codes \in SeqsUpTo(RawCodes, MaxInput), db \in Databases :
         CallNormalizeStockCodes(codes, db)
    \/ \E num \in BareNumbers, db \in Databases :
         CallNormalizeStockCodes(<<PadStart(NumberToString(num), 6)>>, db)
    \/ \E codes \in SeqsUpTo(CleanPool, MaxInput), run \in CleanRuns :
         \/ CallValidateAndClean(codes \o run)
         \/ CallValidateAndClean(run \o codes)
    \/ CallValidateAndClean(NotAnArray)
    \/ \E codes \in SeqsUpTo(RemovalPool, MaxInput),
          found \in SUBSET (1 .. MaxInput), stop \in BOOLEAN,
          dataOpen \in BOOLEAN, open \in BOOLEAN :
         CallUpdateStatusBar(codes, found, stop, dataOpen, open)


(***************************************************************************)
(* StockDatabaseManager (extension.ts): the universe, its cache file and   *)
(* the commands that load it                                               *)
(***************************************************************************)

\* MIN_EXPECTED_STOCKS
MinExpectedStocks == 5000

\* The cache file: absent, or written with a number of stocks and still
\* younger than CACHE_EXPIRY_DAYS or not.  A file that does not parse, or
\* holds no stocks array, reads as a file with 0 stocks.
NoCache == [exists |-> FALSE, fresh |-> FALSE, count |-> 0]
CacheCounts == {0, 1, MinExpectedStocks - 1, MinExpectedStocks}
CacheFiles ==
    {NoCache}
    \cup {[exists |-> TRUE, fresh |-> fresh, count |-> count] :
             fresh \in BOOLEAN, count \in CacheCounts}

\* What fetchAllStocks resolves with, as a number of stocks.
FetchedCounts == {0, 1, MinExpectedStocks - 1, MinExpectedStocks}

\* The remote fetches in flight in the model.
MaxFetches == 2

\* The module's universe and the manager's file as one value, and the
\* actions' way of setting them.
TheLoader ==
    [loaded |-> stockDatabaseLoaded, length |-> stockDatabaseLength,
     cache |-> cacheFile, fetches |-> remoteFetches]
SetLoader(l) ==
    /\ stockDatabaseLoaded' = l.loaded
    /\ stockDatabaseLength' = l.length
    /\ cacheFile' = l.cache
    /\ remoteFetches' = l.fetches

\* loadFromCache() returns true
CacheIsValid(cache) ==
    /\ cache.exists
    /\ cache.fresh
    /\ cache.count >= MinExpectedStocks

\* loadFromCache(): the file after it (a file with too few stocks is
\* deleted)
CacheAfterLoad(cache) ==
    IF /\ cache.exists /\ ~CacheIsValid(cache)
       /\ cache.count > 0 /\ cache.count < MinExpectedStocks
    THEN NoCache
    ELSE cache

\* What load() does: nothing, installs the cache, or starts a remote fetch.
LoadDid(l) ==
    IF l.loaded THEN "nothing"
    ELSE IF CacheIsValid(l.cache) THEN "cache"
    ELSE "fetch"

\* load(), with loadFromCache() and fetchFromRemote()
LoadOn(l) ==
    IF LoadDid(l) = "nothing" THEN l
    ELSE IF LoadDid(l) = "cache"
    THEN [l EXCEPT !.length = l.cache.count, !.loaded = TRUE]
    ELSE [l EXCEPT !.cache = CacheAfterLoad(l.cache), !.loaded = TRUE,
                   !.fetches = @ + 1]

\* The universe is empty: the condition of the search command.
UniverseEmpty(l) == ~l.loaded \/ l.length = 0

NoLoad == [op |-> "none", empty |-> FALSE, did |-> "not asked"]

LoaderIdle ==
    /\ stockDatabaseLoaded = FALSE
    /\ stockDatabaseLength = 0
    /\ cacheFile = NoCache
    /\ remoteFetches = 0
    /\ activated = FALSE
    /\ lastLoad = NoLoad

\* The extension host has loaded the module; the cache file is whatever an
\* earlier session left.
LoaderInit ==
    /\ stockDatabaseLoaded = FALSE
    /\ stockDatabaseLength = 0
    /\ cacheFile \in CacheFiles
    /\ remoteFetches = 0
    /\ activated = FALSE
    /\ lastLoad = NoLoad

LoaderFrame == UNCHANGED <<coreVars, configVars, barVars, viewerVars>>

\* activate(context), as far as the universe goes
Activate ==
    /\ ~activated
    /\ activated' = TRUE
    /\ \E l \in {LoadOn(TheLoader)} : SetLoader(l)
    /\ lastLoad' = [op |-> "activate", empty |-> UniverseEmpty(TheLoader),
                    did |-> LoadDid(TheLoader)]
    /\ LoaderFrame

\* The command stockViewer.searchAndAddStock, up to the quick pick
SearchAndAddStock ==
    /\ activated
    /\ \E l \in {IF UniverseEmpty(TheLoader) THEN LoadOn(TheLoader)
                 ELSE TheLoader} :
           l.fetches <= MaxFetches /\ SetLoader(l)
    /\ lastLoad' = [op |-> "search", empty |-> UniverseEmpty(TheLoader),
                    did |-> IF UniverseEmpty(TheLoader)
                            THEN LoadDid(TheLoader) ELSE "not asked"]
    /\ UNCHANGED activated
    /\ LoaderFrame

\* The command stockViewer.reloadDatabase: reload()
ReloadDatabase ==
    /\ activated
    /\ \E cleared \in {[TheLoader EXCEPT !.cache = NoCache, !.loaded = FALSE,
                                         !.length = 0]} :
           /\ LoadOn(cleared).fetches <= MaxFetches
           /\ SetLoader(LoadOn(cleared))
           /\ lastLoad' = [op |-> "reload", empty |-> TRUE,
                           did |-> LoadDid(cleared)]
    /\ UNCHANGED activated
    /\ LoaderFrame

\* fetchAllStocks() resolves with `count` stocks; saveToCache writes the
\* file, or fails and only logs.
FetchResolves(count, saved) ==
    /\ remoteFetches > 0
    /\ remoteFetches' = remoteFetches - 1
    /\ stockDatabaseLength' = IF count > 0 THEN count ELSE stockDatabaseLength
    /\ cacheFile' = IF count > 0 /\ saved
                    THEN [exists |-> TRUE, fresh |-> TRUE, count |-> count]
                    ELSE cacheFile
    /\ lastLoad' = [NoLoad EXCEPT !.op = "fetch resolves"]
    /\ UNCHANGED <<stockDatabaseLoaded, activated>>
    /\ LoaderFrame

\* fetchAllStocks() rejects
FetchRejects ==
    /\ remoteFetches > 0
    /\ remoteFetches' = remoteFetches - 1
    /\ lastLoad' = [NoLoad EXCEPT !.op = "fetch rejects"]
    /\ UNCHANGED <<stockDatabaseLoaded, stockDatabaseLength, cacheFile,
                   activated>>
    /\ LoaderFrame

\* The cache file grows older than CACHE_EXPIRY_DAYS.
CacheExpires ==
    /\ cacheFile.exists /\ cacheFile.fresh
    /\ cacheFile' = [cacheFile EXCEPT !.fresh = FALSE]
    /\ lastLoad' = [NoLoad EXCEPT !.op = "cache expires"]
    /\ UNCHANGED <<stockDatabaseLoaded, stockDatabaseLength, remoteFetches,
                   activated>>
    /\ LoaderFrame

LoaderNext ==
    \/ Activate
    \/ SearchAndAddStock
    \/ ReloadDatabase
    \/ \E count \in FetchedCounts, saved \in BOOLEAN :
         FetchResolves(count, saved)
    \/ FetchRejects
    \/ CacheExpires


(***************************************************************************)
(* Claims about executeConcurrent (checked under Spec)                     *)
(***************************************************************************)

Resolved == {i \in DOMAIN taskState : taskState[i] = "resolved"}
InFlight == {i \in DOMAIN taskState : taskState[i] = "inflight"}

\* The values the tasks resolved to, in index order.
RECURSIVE ResolvedFrom(_)
ResolvedFrom(i) ==
    IF i >= nTasks THEN <<>>
    ELSE IF taskState[i] = "resolved"
         THEN <<taskValue[i]>> \o ResolvedFrom(i + 1)
         ELSE ResolvedFrom(i + 1)

ResolvedInOrder == ResolvedFrom(0)

\* C1: when the call has resolved, its output is the sequence of the results
\* of the tasks that resolved, in index order, with nothing standing for a
\* failed slot, whatever the order in which the tasks settled.
C1_OutputIsSuccessesInOrder ==
    pc = "done" => output = ResolvedInOrder

\* C2: the call always resolves with all tasks started, and the result of
\* every task that did not fail is in the output, whichever tasks fail.
C2_EverySuccessPresent ==
    pc = "done" =>
        /\ \A i \in DOMAIN startCount : startCount[i] >= 1
        /\ \A i \in Resolved : \E k \in DOMAIN output : output[k] = taskValue[i]

\* C3: the length of the output is the number of tasks that resolved,
\* whatever they resolved to.
C3_LengthIsSuccessCount ==
    pc = "done" => Len(output) = Cardinality(Resolved)

\* C4: at every instant the number of tasks started and not yet settled is
\* at most the concurrency limit.
C4_InFlightAtMostC ==
    pc # "idle" => Cardinality(InFlight) <= concurrency

\* C4 witness: the pool is saturated (C >= 2 tasks in flight) while a task
\* still waits to be started.
C4_Witness ==
    /\ pc = "running"
    /\ concurrency >= 2
    /\ Cardinality(InFlight) = concurrency
    /\ \E i \in DOMAIN taskState : taskState[i] = "unstarted"

\* C5: min(C, len) workers are created; no index is handed out twice and, by
\* the time the call resolves, every task was started exactly once; an empty
\* list creates no worker and resolves to the empty list; with C >= len every
\* task is started by the call itself, before any task has settled.
C5_WorkersAndCursor ==
    pc # "idle" =>
        /\ Len(workers) = Min(concurrency, nTasks)
        /\ \A i \in DOMAIN startCount : startCount[i] <= 1
        /\ \A w1, w2 \in DOMAIN workers :
              (w1 # w2 /\ workers[w1] # Finished) => workers[w1] # workers[w2]
        /\ (pc = "done" => \A i \in DOMAIN startCount : startCount[i] = 1)
        /\ (nTasks = 0 => workers = <<>> /\ (pc = "done" => output = <<>>))
        /\ (concurrency >= nTasks =>
              \A i \in DOMAIN startCount : startCount[i] = 1)

\* C5 witness: a finished call with more tasks than workers, every task
\* started once.
C5_Witness ==
    /\ pc = "done"
    /\ nTasks > concurrency
    /\ concurrency >= 2
    /\ \A i \in DOMAIN startCount : startCount[i] = 1


\* Termination (checked under FairSpec)

\* The tasks that were started and have settled: resolved, rejected, or
\* thrown when called.
Settled ==
    {i \in DOMAIN taskState :
        /\ taskState[i] \in {"resolved", "rejected", "threw"}
        /\ startCount[i] >= 1}

\* C30: when every task settles in the end, a call that has been made
\* resolves in the end; and a call has resolved only when every task has
\* been started and has settled, so that with a task still in flight, for
\* ever if it never settles, the call is still pending.
C30_ResolvesWhenAllSettled ==
    /\ (pc = "running") ~> (pc = "done")
    /\ [](pc = "done" => Settled = DOMAIN taskState)

\* C30 witness: a call of MaxTasks tasks has resolved after one task
\* rejected and another resolved.
C30_Witness ==
    /\ pc = "done"
    /\ nTasks = MaxTasks
    /\ \E i, j \in DOMAIN taskState :
           taskState[i] = "rejected" /\ taskState[j] = "resolved"


(***************************************************************************)
(* Claims about the parsers (checked under QuoteSpec)                      *)
(***************************************************************************)

Parsed == parseIn # NoReply
InField(i) == Part(parseIn.parts, i)
Domestic == ~IsHKStock(parseIn.code) /\ ~IsUSStock(parseIn.code)

\* C6: every snapshot of either parser has changeAmount = currentPrice -
\* yesterdayClose, volume >= 0 and turnover >= 0, whatever the reply holds.
C6_SnapshotInvariant ==
    Parsed =>
        /\ parseOut.changeAmount = parseOut.currentPrice - parseOut.yesterdayClose
        /\ parseOut.volume >= 0
        /\ parseOut.turnover >= 0

\* The value a numeric field stands for, 0 when absent or not a number.
FieldValue(field) == IF field.t = "num" THEN field.v ELSE 0

\* C8: in both dialects an absent or unparsable price field becomes 0, and a
\* record without high and low fields gets todayHigh = todayLow = currentPrice.
C8_DefaultsOfNumericFields ==
    Parsed =>
        LET tencent == parseIn.dialect = "tencent"
            close == IF tencent THEN 4 ELSE 2
            open == IF tencent THEN 5 ELSE 1
            high == IF tencent THEN 33 ELSE 4
            low == IF tencent THEN 34 ELSE 5
        IN /\ parseOut.currentPrice = FieldValue(InField(3))
           /\ parseOut.yesterdayClose = FieldValue(InField(close))
           /\ parseOut.todayOpen = FieldValue(InField(open))
           /\ (InField(high).t = "undef" /\ InField(low).t = "undef") =>
                 /\ parseOut.todayHigh = parseOut.currentPrice
                 /\ parseOut.todayLow = parseOut.currentPrice

\* The raw turnover read from a Tencent record: field 37 when positive, else
\* (domestic records) the first usable of fields 7 and 10; 0 when none.
RawTurnover ==
    IF FieldValue(InField(37)) > 0 THEN FieldValue(InField(37))
    ELSE IF Domestic THEN FirstCandidate(parseIn.parts) ELSE 0

\* volume x 100 x price of the parsed record.
EstimatedTurnover == Times(parseOut.volume * 100, parseOut.currentPrice)

\* C9: for a domestic Tencent record with a raw turnover and estimated > 0:
\* raw/estimated < 0.1 and raw < 1e8 gives raw x 10,000; otherwise
\* raw/estimated > 2 gives estimated; otherwise raw.  A Hong Kong or US
\* record with a raw turnover keeps it.
C9_TencentRatioCorrection ==
    (Parsed /\ parseIn.dialect = "tencent" /\ RawTurnover > 0) =>
        IF Domestic
        THEN (parseOut.volume > 0 /\ parseOut.currentPrice > 0) =>
               parseOut.turnover =
                 IF 10 * RawTurnover < EstimatedTurnover
                    /\ RawTurnover < Fx(100000000)
                 THEN RawTurnover * 10000
                 ELSE IF RawTurnover > 2 * EstimatedTurnover
                      THEN EstimatedTurnover
                      ELSE RawTurnover
        ELSE parseOut.turnover = RawTurnover

\* C10: a domestic Tencent record with volume 50000 lots, price 10.50 and a
\* positive field 37 = v gets turnover v x 10,000, for v = 500 and v = 5000.
C10_Field37TimesTenThousand ==
    (/\ Parsed /\ parseIn.dialect = "tencent" /\ Domestic
     /\ InField(3) = Num(21)
     /\ InField(6) = Num(Fx(50000))
     /\ InField(37) \in {Num(Fx(500)), Num(Fx(5000))}) =>
        parseOut.turnover = InField(37).v * 10000

\* The raw turnover of a Sina line: parseFloat(parts[9]) || 0.
SinaRawTurnover == FieldValue(InField(9))

\* raw/estimated lies in [0.1, 100]: neither scaling branch applies.
TurnoverInRange(raw, estimated) ==
    /\ ~(raw <= (estimated - 1) \div 10)
    /\ ~((raw - 1) \div 100 >= estimated)

\* C11: for a Sina record with raw > 0, volume > 0, price > 0 and
\* estimated = volume x 100 x price, the turnover is raw x 10,000 when
\* raw/estimated < 0.1 and raw < 1e8, raw / 100 when raw/estimated > 100, and
\* raw otherwise; raw = estimated is kept as it is, and correcting a corrected
\* value whose ratio is in range gives the same value again.
C11_SinaTurnoverCorrection ==
    (/\ Parsed /\ parseIn.dialect = "sina"
     /\ SinaRawTurnover > 0 /\ parseOut.volume > 0
     /\ parseOut.currentPrice > 0) =>
        LET raw == SinaRawTurnover
            estimated == EstimatedTurnover
        IN /\ parseOut.turnover =
                IF raw <= (estimated - 1) \div 10 /\ raw < Fx(100000000)
                THEN raw * 10000
                ELSE IF (raw - 1) \div 100 >= estimated
                     THEN raw \div 100
                     ELSE raw
           /\ raw = estimated => parseOut.turnover = raw
           /\ TurnoverInRange(parseOut.turnover, estimated) =>
                 AdjustSinaTurnover(parseOut.turnover, parseOut.volume,
                                    parseOut.currentPrice) = parseOut.turnover

\* A record with volume 50000 lots, price 10.50 and raw turnover 50000 was
\* scaled to 500,000,000, which is in range of its estimate 52,500,000.
C11_Witness ==
    /\ Parsed /\ parseIn.dialect = "sina"
    /\ InField(9) = Num(Fx(50000))
    /\ parseOut.volume = Fx(50000)
    /\ parseOut.currentPrice = 21
    /\ parseOut.turnover = Fx(500000000)
    /\ TurnoverInRange(parseOut.turnover, EstimatedTurnover)


(***************************************************************************)
(* Claims about fetchStocks (checked under FetchSpec)                      *)
(***************************************************************************)

Tencent == fetchSource = "tencent"
SinaFailed == ~Tencent /\ fetchLog # <<>> /\ fetchLog[1].answer = <<HttpFail>>

\* The positions httpGet answered for, the code asked at a position and the
\* answer (Tencent) or line (Sina) given for it.
Answered ==
    IF Tencent THEN DOMAIN fetchLog
    ELSE IF fetchLog = <<>> \/ SinaFailed THEN {}
    ELSE 1 .. Min(Len(fetchLog[1].answer), Len(supportedCodes))
CodeAt(k) == IF Tencent THEN fetchCodes[k] ELSE supportedCodes[k]
AnswerAt(k) == IF Tencent THEN fetchLog[k].answer[1] ELSE fetchLog[1].answer[k]

DroppedNames == {"", NotExistsName, ErrorName}

TencentUnusable(answer) ==
    \/ answer.kind \in {"fail", "nomatch"}
    \/ answer.kind = "record" /\ answer.parts.n < 5

\* C12: fetchStocks always runs to its return.  With Tencent every requested
\* code is asked in turn, whatever the earlier answers were; a rejected or
\* malformed answer leaves no record for its code, and the records returned
\* follow the order of the requested codes.  With Sina a rejected httpGet
\* returns the empty list.
C12_FetchNeverThrows ==
    /\ fetchPc \in {"idle", "tencent", "sina", "done"}
    /\ (Tencent /\ fetchPc = "tencent") =>
          /\ fetchIdx = Len(fetchLog) + 1
          /\ fetchIdx <= Len(fetchCodes)
    /\ (Tencent /\ fetchPc = "done") =>
          /\ Len(fetchLog) = Len(fetchCodes)
          /\ \A k \in DOMAIN fetchLog :
                /\ fetchLog[k].asked = <<TencentCode(fetchCodes[k])>>
                /\ TencentUnusable(fetchLog[k].answer[1]) =>
                      \A j \in DOMAIN fetchFrom : fetchFrom[j] # k
          /\ \A i, j \in DOMAIN fetchFrom :
                i < j => fetchFrom[i] < fetchFrom[j]
          /\ \A j \in DOMAIN fetchFrom :
                fetchResults[j].code = fetchCodes[fetchFrom[j]]
    /\ (SinaFailed /\ fetchPc = "done") => fetchResults = <<>>

\* C12 witness: a finished Tencent fetch of two codes whose first httpGet was
\* rejected and whose second gave the one record returned.
C12_Witness ==
    /\ fetchPc = "done"
    /\ Tencent
    /\ Len(fetchCodes) = 2
    /\ fetchLog[1].answer = <<HttpFail>>
    /\ fetchFrom = <<2>>
    /\ fetchResults[1].code = fetchCodes[2]

(***************************************************************************)
(* Claims about the pure helpers (checked under UtilSpec)                  *)
(***************************************************************************)

Called(fn) == callFn = fn

\* The number a string of digits denotes.
RECURSIVE NumberOf(_)
NumberOf(str) ==
    IF str = <<>> THEN 0
    ELSE 10 * NumberOf(SubSeq(str, 1, Len(str) - 1)) + DigitValue(str[Len(str)])

\* code is prefix followed by exactly six digits that denote i.
IsSixDigitCode(code, prefix, i) ==
    /\ Len(code) = Len(prefix) + 6
    /\ SubSeq(code, 1, Len(prefix)) = prefix
    /\ \A k \in Len(prefix) + 1 .. Len(code) : IsDigit(code[k])
    /\ NumberOf(SubSeq(code, Len(prefix) + 1, Len(code))) = i

\* What C13 says of one call of generateCodes.
GeneratedAsClaimed ==
    LET prefix == callIn.prefix
        start == callIn.start
        end == callIn.end
    IN /\ start > end => callOut.codes = <<>>
       /\ start <= end => Len(callOut.codes) = end - start + 1
       /\ \A k \in DOMAIN callOut.codes :
             IsSixDigitCode(callOut.codes[k], prefix, start + k - 1)
       /\ \A j, k \in DOMAIN callOut.codes :
             j # k => callOut.codes[j] # callOut.codes[k]
       /\ callOut.codes = GenerateCodes(prefix, start, end)

\* C13 as claimed: for all start and end, generateCodes returns prefix + i
\* padded to six digits for i = start..end in ascending order, end - start + 1
\* distinct codes with a six-digit body, the same for the same arguments, and
\* the empty sequence when start > end.
C13_GenerateCodesAnyRange ==
    Called("generateCodes") => GeneratedAsClaimed

\* C13 as amended: the same, for ranges within 0..999999.
C13_GenerateCodesSixDigitRange ==
    (/\ Called("generateCodes")
     /\ callIn.start >= 0
     /\ callIn.end <= 999999) => GeneratedAsClaimed

\* C13 witness: generateCodes('sz', 9, 11) returned sz000009, sz000010 and
\* sz000011.
C13_Witness ==
    /\ Called("generateCodes")
    /\ callIn.start = 9 /\ callIn.end = 11
    /\ callOut.codes = << <<"s", "z", "0", "0", "0", "0", "0", "9">>,
                    <<"s", "z", "0", "0", "0", "0", "1", "0">>,
                    <<"s", "z", "0", "0", "0", "0", "1", "1">> >>

\* C14: isMarketOpen() is true exactly when the day is Monday to Friday and
\* hour*100+minute lies in [915, 1130] or [1300, 1500].
C14_WallClockSessionGate ==
    Called("isMarketOpen") =>
        LET time == callIn.hours * 100 + callIn.minutes
        IN callOut.open = (/\ callIn.day \in 1 .. 5
                      /\ \/ time >= 915 /\ time <= 1130
                         \/ time >= 1300 /\ time <= 1500)

\* C15: for a timestamp in the vendor's format, isMarketOpenByData is false
\* when the embedded date is not today, whatever the clock says, and is the
\* 09:15-11:30 / 13:00-15:00 window check of the embedded time of day when the
\* embedded date is today.
C15_DataTimestampSessionGate ==
    (Called("isMarketOpenByData") /\ callIn.made # NoStamp) =>
        LET time == callIn.made.hours * 100 + callIn.made.minutes
        IN callOut.open = (/\ callIn.made.date = callIn.now.date
                      /\ \/ time >= 915 /\ time <= 1130
                         \/ time >= 1300 /\ time <= 1500)

\* C15 witness: at 10:00 on Friday 2024-01-05 a Sina timestamp of the day
\* before, 14:00, gave closed.
C15_Witness ==
    /\ Called("isMarketOpenByData")
    /\ callIn.dataSource = "sina"
    /\ callIn.stamp = <<"2", "0", "2", "4", "-", "0", "1", "-", "0", "4", " ",
                        "1", "4", ":", "0", "0", ":", "0", "0">>
    /\ callIn.now.date = <<2024, 1, 5>>
    /\ callIn.now.hours = 10
    /\ callOut.open = FALSE

\* The tests an entry can match the trimmed keyword by, in the order the
\* claim lists them: 1 exact name, 2 name prefix, 3 name substring, 4 name
\* substring ignoring case, 5 exact bare number, 6 bare-number prefix,
\* 7 bare-number substring, 8 exact full code, 9 full-code substring.
MatchesBy(stock, keyword, test) ==
    LET lower == ToLowerCase(keyword)
    IN CASE test = 1 -> stock.name = keyword
         [] test = 2 -> StartsWith(stock.name, keyword)
         [] test = 3 -> Includes(stock.name, keyword)
         [] test = 4 -> Includes(ToLowerCase(stock.name), lower)
         [] test = 5 -> stock.number = keyword
         [] test = 6 -> StartsWith(stock.number, keyword)
         [] test = 7 -> Includes(stock.number, keyword)
         [] test = 8 -> ToLowerCase(stock.code) = lower
         [] test = 9 -> Includes(ToLowerCase(stock.code), lower)

\* The first test an entry passes, 0 when it passes none.
FirstTest(stock, keyword) ==
    IF \E t \in 1 .. 9 : MatchesBy(stock, keyword, t)
    THEN CHOOSE t \in 1 .. 9 :
           /\ MatchesBy(stock, keyword, t)
           /\ \A u \in 1 .. t - 1 : ~MatchesBy(stock, keyword, u)
    ELSE 0

\* The place of a test in the order of the claim; prefix and substring
\* matches of the bare number are one category.
ClaimedPlace(test) == IF test = 7 THEN 6 ELSE test

\* The place of a test in the order of the scores: exact name, exact full
\* code, exact bare number, name prefix, bare-number prefix, name substring,
\* name substring ignoring case, bare-number substring, full-code substring.
ScoredPlace(test) ==
    CASE test = 1 -> 1 [] test = 8 -> 2 [] test = 5 -> 3 [] test = 2 -> 4
      [] test = 6 -> 5 [] test = 3 -> 6 [] test = 4 -> 7 [] test = 7 -> 8
      [] test = 9 -> 9

SearchKeyword == Trim(callIn.keyword)

\* C16 as claimed: an entry whose best category comes earlier in the list
\* (exact name, name prefix, name substring, exact bare number, bare-number
\* prefix/substring, exact full code, full-code substring) is ranked before
\* every entry whose best category comes later.
C16_RankedInListedOrder ==
    Called("searchStocks") =>
        \A i, j \in DOMAIN callOut.stocks :
            i < j =>
              ClaimedPlace(FirstTest(callOut.stocks[i], SearchKeyword))
                <= ClaimedPlace(FirstTest(callOut.stocks[j], SearchKeyword))

\* C16 as amended: the result holds exactly the universe entries that pass a
\* test, each once; an entry's category is the first test it passes, and the
\* entries are ranked by category in the order exact name > exact full code >
\* exact bare number > name prefix > bare-number prefix > name substring >
\* name substring ignoring case > bare-number substring > full-code substring.
C16_RankedInScoreOrder ==
    Called("searchStocks") =>
        /\ {callOut.stocks[k] : k \in DOMAIN callOut.stocks}
             = {callIn.database[k] : k \in
                  {n \in DOMAIN callIn.database :
                     /\ SearchKeyword # <<>>
                     /\ FirstTest(callIn.database[n], SearchKeyword) > 0}}
        /\ \A i, j \in DOMAIN callOut.stocks :
              i # j => callOut.stocks[i] # callOut.stocks[j]
        /\ \A i, j \in DOMAIN callOut.stocks :
              i < j =>
                ScoredPlace(FirstTest(callOut.stocks[i], SearchKeyword))
                  <= ScoredPlace(FirstTest(callOut.stocks[j], SearchKeyword))

\* C16 witness: for the keyword "12" the entry numbered 12 (exact bare
\* number) came before the entry named "12x" (name prefix), which precedes it
\* in the universe.
C16_Witness ==
    /\ Called("searchStocks")
    /\ callIn.keyword = <<"1", "2">>
    /\ callIn.database = <<StockItem(<<"s", "z", "9", "0", "1">>, <<"1", "2", "x">>),
                           StockItem(<<"s", "z", "1", "2">>, <<"y", "y">>)>>
    /\ callOut.stocks = <<StockItem(<<"s", "z", "1", "2">>, <<"y", "y">>),
                   StockItem(<<"s", "z", "9", "0", "1">>, <<"1", "2", "x">>)>>

\* C17: among results of equal score an entry with a name precedes one
\* without, then the shorter name comes first, then the smaller code: two
\* entries that tie on score and on name length are in code order.
C17_TiesBrokenByNameThenCode ==
    Called("searchStocks") =>
        \A i, j \in DOMAIN callOut.stocks :
            (/\ i < j
             /\ FirstTest(callOut.stocks[i], SearchKeyword)
                  = FirstTest(callOut.stocks[j], SearchKeyword)) =>
                LET a == callOut.stocks[i]
                    b == callOut.stocks[j]
                IN /\ ~(a.name = <<>> /\ b.name # <<>>)
                   /\ Len(a.name) <= Len(b.name) \/ b.name = <<>>
                   /\ Len(a.name) = Len(b.name) => LocaleLess(a.code, b.code)

\* The positions of the input that normalizeStockCodes pushes `str` for.
PushedAt(str) ==
    {k \in DOMAIN callIn.codes :
       NormalizeOne(callIn.codes[k], callIn.db.stocks, callIn.db.loaded) = <<str>>}
FirstPushedAt(str) ==
    CHOOSE k \in PushedAt(str) : \A n \in PushedAt(str) : k <= n

\* C18: the list returned by normalizeStockCodes has no two entries that are
\* equal ignoring case, and its entries are in the order of their first
\* occurrence in the input, strings passed through unchanged included.
C18_DeduplicatedIgnoringCase ==
    Called("normalizeStockCodes") =>
        LET out == callOut.codes
        IN /\ \A i, j \in DOMAIN out :
                i # j => ToLowerCase(out[i]) # ToLowerCase(out[j])
           /\ \A i \in DOMAIN out : PushedAt(out[i]) # {}
           /\ \A i, j \in DOMAIN out :
                i < j => FirstPushedAt(out[i]) < FirstPushedAt(out[j])

\* A code in canonical form: sz/sh/bj + 6 digits, hk + 5 digits, or
\* us. + symbol with an optional dotted class, in either case.
IsCanonicalForm(str) ==
    \/ /\ Len(str) = 8
       /\ \E p \in {<<"s", "z">>, <<"s", "h">>, <<"b", "j">>} :
            ToLowerCase(SubSeq(str, 1, 2)) = p
       /\ \A k \in 3 .. 8 : IsDigit(str[k])
    \/ /\ Len(str) = 7
       /\ ToLowerCase(SubSeq(str, 1, 2)) = <<"h", "k">>
       /\ \A k \in 3 .. 7 : IsDigit(str[k])
    \/ /\ Len(str) > 3
       /\ ToLowerCase(SubSeq(str, 1, 3)) = <<"u", "s", ".">>
       /\ \E symbolEnd \in 4 .. Len(str) :
            /\ \A k \in 4 .. symbolEnd : IsAlnum(str[k])
            /\ \/ symbolEnd = Len(str)
               \/ /\ symbolEnd + 1 < Len(str)
                  /\ str[symbolEnd + 1] = "."
                  /\ \A k \in symbolEnd + 2 .. Len(str) : IsLetter(str[k])

\* C19: a code already in canonical form comes out lower-cased and otherwise
\* unchanged, and normalizing the list normalizeStockCodes returned, with the
\* same universe, returns the same list.
C19_NormalizeIsIdempotent ==
    Called("normalizeStockCodes") =>
        /\ \A k \in DOMAIN callIn.codes :
              IsCanonicalForm(callIn.codes[k]) =>
                 \E i \in DOMAIN callOut.codes :
                    callOut.codes[i] = ToLowerCase(callIn.codes[k])
        /\ Len(callIn.codes) = 1 /\ IsCanonicalForm(callIn.codes[1]) =>
              callOut.codes = <<ToLowerCase(callIn.codes[1])>>
        /\ NormalizeStockCodes(callOut.codes, callIn.db.stocks, callIn.db.loaded)
             = callOut.codes

\* C19 witness: with the universe loaded, a name and an upper-case code gave
\* the code of the entry of that name and the lower-cased code.
C19_Witness ==
    /\ Called("normalizeStockCodes")
    /\ callIn.db.stocks = NamedStocks
    /\ callIn.codes = <<<<"CJK1", "CJK2">>,
                        <<"S", "Z", "0", "0", "0", "0", "0", "1">>>>
    /\ callOut.codes = <<<<"s", "h", "6", "0", "0", "0", "3", "6">>,
                         <<"s", "z", "0", "0", "0", "0", "0", "1">>>>

\* The prefix the claim gives the bare number n.
ClaimedPrefix(n) ==
    IF n \in 600000 .. 605999 \/ n \in 688000 .. 689999 THEN <<"s", "h">>
    ELSE IF n \in 0 .. 6999 \/ n \in 300000 .. 302999 THEN <<"s", "z">>
    ELSE IF n \in 920000 .. 920999 THEN <<"b", "j">>
    ELSE <<"s", "z">>

\* C20: a bare 6-digit input n comes out as prefix + n, the prefix being sh
\* for 600000-605999 and 688000-689999, sz for 0-6999 and 300000-302999, bj
\* for 920000-920999 and sz otherwise; an input in a recognised prefix form
\* comes out without a further prefix.
C20_BareNumberPrefix ==
    (Called("normalizeStockCodes") /\ Len(callIn.codes) = 1) =>
        LET str == Trim(callIn.codes[1])
        IN /\ (Len(str) = 6 /\ \A k \in 1 .. 6 : IsDigit(str[k])) =>
                callOut.codes = <<ClaimedPrefix(NumberOf(str)) \o str>>
           /\ IsCanonicalForm(str) => callOut.codes = <<ToLowerCase(str)>>

\* C20 witness: 605999, the last number of the Shanghai main board, came out
\* as sh605999.
C20_Witness ==
    /\ Called("normalizeStockCodes")
    /\ callIn.codes = <<<<"6", "0", "5", "9", "9", "9">>>>
    /\ callOut.codes = <<<<"s", "h", "6", "0", "5", "9", "9", "9">>>>


(***************************************************************************)
(* Claims about ConfigManager (checked under ConfigSpec)                   *)
(***************************************************************************)

\* No two entries of the list are equal ignoring case.
NoDuplicatesIgnoringCase(codes) ==
    \A i, j \in DOMAIN codes :
        i # j => ToLowerCase(codes[i]) # ToLowerCase(codes[j])

\* The call of addStockCode last made is one the claim says is rejected:
\* invalid format, already listed ignoring case, or list full.
AddRejected ==
    \/ ~IsValidStockCode(lastAdd.code)
    \/ \E k \in DOMAIN lastAdd.found :
         ToLowerCase(lastAdd.found[k]) = ToLowerCase(Trim(lastAdd.code))
    \/ Len(lastAdd.found) >= 7

\* C21: starting from a list of at most 7 entries with no two equal ignoring
\* case, after any sequence of addStockCode calls the list has at most 7
\* entries and no case-insensitive duplicates; a call rejected for invalid
\* format, duplicate or full list answers success = false and leaves the list
\* as it was, and an accepted call appends the trimmed code at the end.
C21_AddStockCodeKeepsList ==
    /\ Len(stockCodes) <= 7
    /\ NoDuplicatesIgnoringCase(stockCodes)
    /\ lastAdd.called =>
         /\ lastAdd.success = ~AddRejected
         /\ stockCodes = IF AddRejected THEN lastAdd.found
                         ELSE Append(lastAdd.found, Trim(lastAdd.code))

\* An untrimmed code is accepted as the seventh entry.
C21_Witness ==
    /\ lastAdd.called
    /\ lastAdd.success
    /\ lastAdd.code # Trim(lastAdd.code)
    /\ Len(stockCodes) = 7


(***************************************************************************)
(* Claims about validateAndCleanStockCodes (checked under UtilSpec)        *)
(***************************************************************************)

\* The list handed to validateAndCleanStockCodes; what is no array has no
\* entries.
CleanInput == IF callIn.codes = NotAnArray THEN <<>> ELSE callIn.codes

\* The positions of the input holding the first occurrence, ignoring case
\* and outer blanks, of a valid code.
FirstValidAt ==
    {i \in DOMAIN CleanInput :
        /\ IsValidStockCode(CleanInput[i])
        /\ \A j \in 1 .. i - 1 :
             ~ /\ IsValidStockCode(CleanInput[j])
               /\ ToLowerCase(Trim(CleanInput[j]))
                    = ToLowerCase(Trim(CleanInput[i]))}

\* C22: validateAndCleanStockCodes returns the trimmed first occurrences
\* (ignoring case) of the valid codes of its input, in input order, cut to
\* the first 7; its output holds only valid codes, has no case-insensitive
\* duplicates and at most 7 entries, and cleaning the output again returns
\* the same list.
C22_CleanedList ==
    Called("validateAndCleanStockCodes") =>
        /\ Len(callOut.cleaned) = Min(7, Cardinality(FirstValidAt))
        /\ \A k \in DOMAIN callOut.cleaned :
             \E i \in FirstValidAt :
                /\ Cardinality({j \in FirstValidAt : j <= i}) = k
                /\ callOut.cleaned[k] = Trim(CleanInput[i])
        /\ \A k \in DOMAIN callOut.cleaned :
             IsValidStockCode(callOut.cleaned[k])
        /\ NoDuplicatesIgnoringCase(callOut.cleaned)
        /\ Len(callOut.cleaned) <= 7
        /\ callOut.again = callOut.cleaned

\* A list with more than 7 valid codes, one of them untrimmed and kept, one
\* a repetition in another case, is cut to 7.
C22_Witness ==
    /\ Called("validateAndCleanStockCodes")
    /\ Cardinality(FirstValidAt) > 7
    /\ Len(callOut.cleaned) = 7
    /\ \E i \in FirstValidAt : CleanInput[i] # Trim(CleanInput[i])
    /\ \E i \in DOMAIN CleanInput \ FirstValidAt :
         /\ IsValidStockCode(CleanInput[i])
         /\ \A j \in 1 .. i - 1 : CleanInput[j] # CleanInput[i]


(***************************************************************************)
(* Claims about StatusBarManager (checked under BarSpec)                   *)
(***************************************************************************)

\* C23: after any call to updateStocks with n stocks, exactly the first
\* min(n, 7) stock items are visible and every other stock item is hidden,
\* whatever calls of showError, showNotConfigured, hide and updateStocks
\* came before.
C23_FirstItemsVisible ==
    lastBar.op = "updateStocks" =>
        \A i \in 1 .. 7 :
            stockBarItems[i].visible <=> i <= Min(lastBar.n, 7)


(***************************************************************************)
(* Claims about StockViewer (checked under ViewerSpec)                     *)
(***************************************************************************)

\* clamp(seconds, 3, 1800), spelled out by cases
ClampedSeconds(seconds) ==
    IF seconds < Fx(3) THEN Fx(3)
    ELSE IF seconds > Fx(1800) THEN Fx(1800)
    ELSE seconds

\* C24: the period of every polling timer start() installs is 1000 times
\* the configured number of seconds clamped to [3, 1800], and so lies
\* between 3,000 ms and 1,800,000 ms whatever number is configured.
C24_TimerPeriodClamped ==
    \A t \in liveTimers :
        /\ Fx(t.period) = 1000 * ClampedSeconds(t.seconds)
        /\ t.period >= 3000
        /\ t.period <= 1800000

\* A timer installed while 1800.5 seconds are configured runs every
\* 1,800,000 ms.
C24_Witness ==
    \E t \in liveTimers : t.seconds > Fx(1800) /\ t.period = 1800000


C26_NewestRunWins == ~lastOp.stale


\* C28: once a tick has cancelled the polling timer, no timer is live, and
\* so no periodic update is issued, until start(), refresh() or a
\* configuration change runs; and a call of start() leaves a timer only if
\* auto-update is enabled and not (stopOnMarketClose with the gate closed).
C28_NoPollingAfterCancel ==
    /\ tickCancelled => liveTimers = {}
    /\ (lastOp.started /\ liveTimers # {})
       => /\ settings.enableAutoUpdate
          /\ ~(settings.stopOnMarketClose /\ ~marketOpen)

\* A tick cancelled the timer while the market was closed, the market has
\* reopened since, auto-update is enabled, and nothing polls.
C28_Witness ==
    /\ tickCancelled
    /\ lastOp.op = "clock"
    /\ marketOpen
    /\ settings.enableAutoUpdate
    /\ settings.stopOnMarketClose
    /\ liveTimers = {}


(***************************************************************************)
(* Claims about the auto-removal of updateStatusBar (checked under         *)
(* UtilSpec)                                                               *)
(***************************************************************************)

\* The canonical form of the configured code is the code of a returned
\* quote, ignoring case.
CanonicalMatches(code, stocks) ==
    /\ Normalized(<<code>>) # <<>>
    /\ \E k \in DOMAIN stocks :
           ToLowerCase(Normalized(<<code>>)[1]) = ToLowerCase(stocks[k].code)

\* The stockCodes setting once the run has ended.
ListAfterRun ==
    IF callOut.outcome.writes THEN callOut.outcome.list ELSE callIn.codes

\* The market-closed check ends the run.
StoppedAsClosed ==
    /\ callIn.stop
    /\ IF callIn.stocks # <<>> THEN ~callIn.dataOpen ELSE ~callIn.open

\* C27: a run that gets at least one quote but fewer than configured codes,
\* and is not ended by the market-closed check, leaves in the configuration
\* exactly the configured codes whose canonical form matches a returned
\* quote ignoring case, in their order; a run that gets no quote leaves the
\* configured list as it was.
C27_RewritesToFound ==
    callFn = "updateStatusBar" =>
        /\ (/\ callIn.stocks # <<>>
            /\ Len(callIn.stocks) < Len(callIn.codes)
            /\ ~StoppedAsClosed)
           => ListAfterRun
                = SelectSeq(callIn.codes,
                            LAMBDA code : CanonicalMatches(code, callIn.stocks))
        /\ callIn.stocks = <<>> => ListAfterRun = callIn.codes


(***************************************************************************)
(* Claims about StockDatabaseManager (checked under LoaderSpec)            *)
(***************************************************************************)

\* C29: whenever the search command runs while the universe is empty (the
\* flag unset, or set with no entries), the load it asks for is carried
\* out: it installs a valid cache or starts a remote fetch.
C29_SearchLoads ==
    (lastLoad.op = "search" /\ lastLoad.empty)
    => lastLoad.did \in {"cache", "fetch"}


FetchIdle ==
    /\ fetchPc = "idle"
    /\ fetchSource = "tencent"
    /\ fetchCodes = <<>>
    /\ supportedCodes = <<>>
    /\ fetchIdx = 0
    /\ fetchLog = <<>>
    /\ fetchResults = <<>>
    /\ fetchFrom = <<>>

CoreIdle == ExecInit /\ QuoteIdle /\ FetchIdle /\ UtilIdle
ExtIdle == ConfigDefault /\ BarInit /\ ViewerInit /\ LoaderIdle

Init == CoreIdle /\ ExtIdle
Next == ExecNext
Spec == Init /\ [][Next]_vars

\* executeConcurrent with tasks that settle and a running event loop.
FairSpec == Init /\ [][Next]_vars /\ ExecFairness

QuoteSpec == Init /\ [][QuoteNext]_vars

FetchSpec == Init /\ [][FetchNext]_vars

UtilSpec == Init /\ [][UtilNext]_vars

ConfigStart ==
    CoreIdle /\ ConfigInit /\ BarInit /\ ViewerInit /\ LoaderIdle
ConfigSpec == ConfigStart /\ [][ConfigNext]_vars

BarSpec == Init /\ [][BarNext]_vars

ViewerSpec == Init /\ [][ViewerNext]_vars

LoaderStart ==
    CoreIdle /\ ConfigDefault /\ BarInit /\ ViewerInit /\ LoaderInit
LoaderSpec == LoaderStart /\ [][LoaderNext]_vars

=============================================================================
